---- MODULE Spec2Model ----
(***************************************************************************)
(* The segmented append-only log of the digest store (Open, Write,         *)
(* WriteBatch, Read, Sync, Close, cycle), its varint framing, and the      *)
(* files it keeps on disk, including I/O failures and crashes.             *)
(***************************************************************************)
EXTENDS Integers, Sequences, FiniteSets, TLC

VARIABLES
    files,    \* the digest directory: files[i] is segment file number i
    l,        \* the Log instance of the process (NoLog when there is none)
    batch,    \* a Batch owned by the caller, staged with Batch.Write
    last,     \* the last call made and what it returned
    acked,    \* payloads of the records whose write call returned nil
    hist,     \* what has happened so far (faults, crashes, counters)
    mu,       \* l.mu, the RWMutex of the Log
    pc,       \* the goroutines calling the Log: the call each makes and where it is
    rag       \* the documents, encodings and selections of the digest functions

vars == <<files, l, batch, last, acked, hist, mu, pc, rag>>

\* what the calls of one goroutine on the log leave alone
aux == <<mu, pc, rag>>

Unlocked == [w |-> 0, held |-> FALSE, readers |-> {}]
NoRag == [none |-> TRUE]

\* one caller, no digest function running
Alone == mu = Unlocked /\ pc = << >> /\ rag = NoRag

----------------------------------------------------------------------------
(* Bounds of the model *)

SegSize == 4          \* Options.SegmentSize used by every Open of the model
MaxCalls == 3         \* write-side calls (Write, WriteBatch, Batch.Write, cycle)
MaxBatch == 2         \* entries staged in the caller's batch
MaxFaults == 1        \* injected I/O failures
MaxOpens == 2         \* Opens of the directory
MaxCutRecs == 2       \* records of the tail file in the truncation model
BigLen == 128         \* a payload long enough for a two-byte length prefix

MaxVarintLen64 == 10
Huge == 1073741824    \* stands for every length no buffer of the model can hold

Payloads == {<< >>, <<1>>, <<2, 3>>}

Min(a, b) == IF a < b THEN a ELSE b

\* Options of Open(path, nil)
DefaultOptions == [NoSync |-> FALSE]

NoLog == [none |-> TRUE]
NilFile == [seg |-> 0, st |-> "nil"]
EmptyBatch == [entries |-> << >>, data |-> << >>]
NoFault == [at |-> 0, short |-> 0]

----------------------------------------------------------------------------
(* Varint framing *)

RECURSIVE PutUvarint(_)
PutUvarint(x) ==
    IF x < 128 THEN <<x>>
    ELSE <<(x % 128) + 128>> \o PutUvarint(x \div 128)

appendUvarint(dst, x) == dst \o PutUvarint(x)

\* the span taken after the length prefix is appended
appendBinaryEntryLatePos(dst, data) ==
    LET pos == Len(appendUvarint(dst, Len(data)))
        out == appendUvarint(dst, Len(data)) \o data
    IN  [out |-> out, cpos |-> [pos |-> pos, end |-> Len(out)]]

appendBinaryEntry(dst, data) ==
    LET pos == Len(dst)
        out == appendUvarint(dst, Len(data)) \o data
    IN  [out |-> out, cpos |-> [pos |-> pos, end |-> Len(out)]]

appendEntry(dst, data) == appendBinaryEntry(dst, data)

\* x * 2^s with every value too large for the model collapsed to Huge
ShiftL(x, s) ==
    IF x = 0 THEN 0
    ELSE IF s >= 28 THEN Huge
    ELSE Min(x * (2 ^ s), Huge)

RECURSIVE UvarintFrom(_, _, _, _)
UvarintFrom(buf, i, x, s) ==
    IF i >= Len(buf) THEN [val |-> 0, n |-> 0]
    ELSE IF i = MaxVarintLen64 THEN [val |-> 0, n |-> 0 - (i + 1)]
    ELSE LET b == buf[i + 1] IN
         IF b < 128
         THEN IF i = MaxVarintLen64 - 1 /\ b > 1
              THEN [val |-> 0, n |-> 0 - (i + 1)]
              ELSE [val |-> Min(x + ShiftL(b, s), Huge), n |-> i + 1]
         ELSE UvarintFrom(buf, i + 1, Min(x + ShiftL(b % 128, s), Huge), s + 7)

Uvarint(buf) == UvarintFrom(buf, 0, 0, 0)

Drop(s, n) == SubSeq(s, n + 1, Len(s))

\* the entry size not compared with the bytes that are left
loadNextBinaryEntryUnchecked(data) ==
    LET u == Uvarint(data) IN
    IF u.n <= 0 THEN [n |-> 0, err |-> "ErrCorruptSize"]
    ELSE [n |-> u.n + u.val, err |-> "nil"]

loadNextBinaryEntry(data) ==
    LET u == Uvarint(data) IN
    IF u.n <= 0 THEN [n |-> 0, err |-> "ErrCorruptSize"]
    ELSE IF Len(data) - u.n < u.val THEN [n |-> 0, err |-> "ErrCorruptData"]
    ELSE [n |-> u.n + u.val, err |-> "nil"]

RECURSIVE ParseEntries(_, _, _)
ParseEntries(data, pos, cpos) ==
    IF Len(data) = 0 THEN [cpos |-> cpos, err |-> "nil"]
    ELSE LET r == loadNextBinaryEntry(data) IN
         IF r.err # "nil" THEN [cpos |-> << >>, err |-> r.err]
         ELSE ParseEntries(Drop(data, r.n), pos + r.n,
                           Append(cpos, [pos |-> pos, end |-> pos + r.n]))

----------------------------------------------------------------------------
(* The files: what the process sees (content) and what a crash keeps       *)
(* (synced). A call runs on a context c: the log, the files, the batch of  *)
(* the call, the locals of writeBatch (s, mark, data), the payload a Read  *)
(* returns (out) and the error. io counts the I/O calls made so far; the   *)
(* fault f makes I/O call number f.at fail (a write after f.short bytes).  *)

NewFile == [content |-> << >>, synced |-> << >>]

Ctx(lg, fs, b) ==
    [l |-> lg, files |-> fs, b |-> b, io |-> 0, err |-> "nil",
     hit |-> FALSE, short |-> 0, s |-> 0, mark |-> 0, data |-> << >>,
     out |-> << >>]

Fail(c, e) == [c EXCEPT !.err = e]

\* the rest of a call runs only while no error has been returned
Then(c, F(_)) == IF c.err # "nil" THEN c ELSE F(c)

\* one more I/O call on the tail handle: unusable handle, injected failure, or ok
IOCall(c, f, bad, ok) ==
    IF c.l.sfile.st # "open" THEN [c EXCEPT !.io = @ + 1, !.err = "ErrFile"]
    ELSE IF f.at = c.io + 1 THEN [bad EXCEPT !.io = @ + 1, !.err = "EIO", !.hit = TRUE]
    ELSE [ok EXCEPT !.io = @ + 1]

FileWrite(c, bytes, f) ==
    IOCall(c, f,
           [c EXCEPT !.short = Min(f.short, Len(bytes) - 1),
                     !.files[c.l.sfile.seg].content =
                         @ \o SubSeq(bytes, 1, Min(f.short, Len(bytes) - 1))],
           [c EXCEPT !.files[c.l.sfile.seg].content = @ \o bytes])

FileSync(c, f) ==
    IOCall(c, f, c,
           [c EXCEPT !.files[c.l.sfile.seg].synced = c.files[c.l.sfile.seg].content])

\* a Close that reports an error has released the descriptor all the same
FileClose(c, f) ==
    IOCall(c, f, [c EXCEPT !.l.sfile.st = "closed"],
                 [c EXCEPT !.l.sfile.st = "closed"])

\* os.OpenFile with O_CREATE|O_RDWR|O_TRUNC; on failure the handle is nil
OpenFileCreate(c, idx, f) ==
    IF f.at = c.io + 1
    THEN [c EXCEPT !.io = @ + 1, !.err = "EIO", !.hit = TRUE, !.l.sfile = NilFile]
    ELSE [c EXCEPT !.io = @ + 1,
                   !.l.sfile = [seg |-> idx, st |-> "open"],
                   !.files = IF idx <= Len(c.files)
                             THEN [c.files EXCEPT ![idx] = NewFile]
                             ELSE Append(c.files, NewFile)]

\* the tail reopened with O_TRUNC
OpenFileAppendTrunc(c, idx, f) ==
    IF f.at = c.io + 1
    THEN [c EXCEPT !.io = @ + 1, !.err = "EIO", !.hit = TRUE, !.l.sfile = NilFile]
    ELSE [c EXCEPT !.io = @ + 1, !.l.sfile = [seg |-> idx, st |-> "open"],
                   !.files[idx] = NewFile]

\* os.OpenFile of an existing file with O_WRONLY, then Seek to its end
OpenFileAppend(c, idx, f) ==
    IF f.at = c.io + 1
    THEN [c EXCEPT !.io = @ + 1, !.err = "EIO", !.hit = TRUE, !.l.sfile = NilFile]
    ELSE [c EXCEPT !.io = @ + 1, !.l.sfile = [seg |-> idx, st |-> "open"]]

\* os.ReadFile: the bytes read are left in c.data
ReadFile(c, idx, f) ==
    IF f.at = c.io + 1
    THEN [c EXCEPT !.io = @ + 1, !.err = "EIO", !.hit = TRUE]
    ELSE [c EXCEPT !.io = @ + 1, !.data = c.files[idx].content]

----------------------------------------------------------------------------
(* Batch *)

BatchWriteTo(b, data) ==
    [entries |-> Append(b.entries, [size |-> Len(data)]),
     data |-> b.data \o data]

BatchClear(b) == EmptyBatch

\* the payloads staged in a batch, in order
RECURSIVE BatchPayloads(_, _, _)
BatchPayloads(entries, data, i) ==
    IF i > Len(entries) THEN << >>
    ELSE <<SubSeq(data, 1, entries[i].size)>>
         \o BatchPayloads(entries, Drop(data, entries[i].size), i + 1)

----------------------------------------------------------------------------
(* Rotation and the write path *)

NewSegment(idx) == [index |-> idx, cbuf |-> << >>, cpos |-> << >>]

NameWidth == 20

\* the decimal digits of n, and n printed with %020d
RECURSIVE Decimal(_)
Decimal(n) == IF n < 10 THEN <<n>> ELSE Append(Decimal(n \div 10), n % 10)

segmentName(index) ==
    [i \in 1..(NameWidth - Len(Decimal(index))) |-> 0] \o Decimal(index)

\* strconv.ParseUint(name, 10, 64) of a name made of digits
RECURSIVE ParseUint(_)
ParseUint(name) ==
    IF Len(name) = 0 THEN 0
    ELSE (10 * ParseUint(SubSeq(name, 1, Len(name) - 1))) + name[Len(name)]

TailSeg(c) == c.l.segments[Len(c.l.segments)]

\* the new segment numbered two past the tail
addSegmentGap(c, f) ==
    Then(OpenFileCreate(c, TailSeg(c).index + 2, f),
         LAMBDA x : [x EXCEPT !.l.segments = Append(@, NewSegment(TailSeg(c).index + 2))])

addSegment(c, f) ==
    Then(OpenFileCreate(c, TailSeg(c).index + 1, f),
         LAMBDA x : [x EXCEPT !.l.segments = Append(@, NewSegment(TailSeg(c).index + 1))])

cycle(c, f) ==
    Then(Then(FileSync(c, f), LAMBDA x : FileClose(x, f)),
         LAMBDA x : addSegment(x, f))

\* s := the first segment of the list
atFirst(c, mark) == [c EXCEPT !.s = 1, !.mark = mark]

\* s := the tail segment; mark := the first byte of s.cbuf not yet in the file
atTail(c, mark) == [c EXCEPT !.s = Len(c.l.segments), !.mark = mark]

appendTo(c, e, size) ==
    [c EXCEPT !.l.segments[c.s].cbuf = e.out,
              !.l.segments[c.s].cpos = Append(@, e.cpos),
              !.data = Drop(c.data, size)]

\* entry i of the batch goes into the cache of segment s
stage(c, i) ==
    appendTo(c, appendEntry(c.l.segments[c.s].cbuf,
                            SubSeq(c.data, 1, c.b.entries[i].size)),
             c.b.entries[i].size)

Unwritten(c) == Drop(c.l.segments[c.s].cbuf, c.mark)

rotate(c, f) ==
    Then(Then(FileWrite(c, Unwritten(c), f), LAMBDA x : cycle(x, f)),
         LAMBDA x : atTail(x, 0))

staged(c, f) ==
    IF Len(c.l.segments[c.s].cbuf) >= c.l.opts.SegmentSize THEN rotate(c, f) ELSE c

RECURSIVE writeLoop(_, _, _)
writeLoop(c, i, f) ==
    IF c.err # "nil" \/ i > Len(c.b.entries) THEN c
    ELSE writeLoop(staged(stage(c, i), f), i + 1, f)

makeRoom(c, f) ==
    IF Len(TailSeg(c).cbuf) > c.l.opts.SegmentSize THEN cycle(c, f) ELSE c

enter(c) == [atTail(c, Len(TailSeg(c).cbuf)) EXCEPT !.data = c.b.data]

flush(c, f) == IF Len(Unwritten(c)) > 0 THEN FileWrite(c, Unwritten(c), f) ELSE c

commit(c, f) == IF ~c.l.opts.NoSync THEN FileSync(c, f) ELSE c

writeBatch(c, f) ==
    Then(Then(Then(Then(makeRoom(c, f),
                        LAMBDA x : writeLoop(enter(x), 1, f)),
                   LAMBDA x : flush(x, f)),
              LAMBDA x : commit(x, f)),
         LAMBDA x : [x EXCEPT !.b = BatchClear(x.b)])

\* the closed flag not looked at
RefusedOnlyCorrupt(lg) == IF lg.corrupt THEN "ErrLogCorrupt" ELSE "nil"

Refused(lg) ==
    IF lg.corrupt THEN "ErrLogCorrupt" ELSE IF lg.closed THEN "ErrLogClosed" ELSE "nil"

keepBatch(c) == [c EXCEPT !.l.wbatch = c.b]

\* Log.Write: the batch of the call is the log's own wbatch
WriteCall(lg, fs, data, f) ==
    IF Refused(lg) # "nil" THEN Fail(Ctx(lg, fs, lg.wbatch), Refused(lg))
    ELSE keepBatch(writeBatch(Ctx(lg, fs, BatchWriteTo(BatchClear(lg.wbatch), data)), f))

\* a WriteBatch that clears the batch when it returns early
WriteBatchCallClearing(lg, fs, b, f) ==
    IF Refused(lg) # "nil" THEN Fail(Ctx(lg, fs, b), Refused(lg))
    ELSE IF Len(b.data) = 0 THEN Ctx(lg, fs, BatchClear(b))
    ELSE writeBatch(Ctx(lg, fs, b), f)

\* Log.WriteBatch: the batch of the call is the caller's
WriteBatchCall(lg, fs, b, f) ==
    IF Refused(lg) # "nil" THEN Fail(Ctx(lg, fs, b), Refused(lg))
    ELSE IF Len(b.data) = 0 THEN Ctx(lg, fs, b)
    ELSE writeBatch(Ctx(lg, fs, b), f)

----------------------------------------------------------------------------
(* Loading segments and the read path *)

parsed(c, s, p) ==
    IF p.err # "nil" THEN Fail(c, p.err)
    ELSE [c EXCEPT !.l.segments[s].cbuf = c.data, !.l.segments[s].cpos = p.cpos]

\* s is the position of the segment in l.segments
loadSegmentEntries(c, s, f) ==
    Then(ReadFile(c, c.l.segments[s].index, f),
         LAMBDA x : parsed(x, s, ParseEntries(x.data, 0, << >>)))

\* binary search over positions i..j-1 (0-based, as in the source)
RECURSIVE bsearch(_, _, _, _)
bsearch(segments, index, i, j) ==
    IF i < j
    THEN IF index >= segments[(i + ((j - i) \div 2)) + 1].index
         THEN bsearch(segments, index, (i + ((j - i) \div 2)) + 1, j)
         ELSE bsearch(segments, index, i, i + ((j - i) \div 2))
    ELSE i - 1

findSegment(segments, index) == bsearch(segments, index, 0, Len(segments))

\* the segment never loaded from its file
foundUnloaded(c, s, f) == [c EXCEPT !.s = s]

found(c, s, f) ==
    IF Len(c.l.segments[s].cpos) = 0
    THEN [loadSegmentEntries(c, s, f) EXCEPT !.s = s]
    ELSE [c EXCEPT !.s = s]

\* leaves in c.s the position of the segment in l.segments
loadSegment(c, index, f) ==
    IF index >= TailSeg(c).index THEN [c EXCEPT !.s = Len(c.l.segments)]
    ELSE found(c, findSegment(c.l.segments, index) + 1, f)

\* the record returned with its length prefix
decodeFramed(c, edata, u) ==
    IF u.n <= 0 THEN Fail(c, "ErrCorruptSize")
    ELSE IF Len(edata) - u.n < u.val THEN Fail(c, "ErrCorruptData")
    ELSE [c EXCEPT !.out = SubSeq(edata, 1, u.n + u.val)]

decode(c, edata, u) ==
    IF u.n <= 0 THEN Fail(c, "ErrCorruptSize")
    ELSE IF Len(edata) - u.n < u.val THEN Fail(c, "ErrCorruptData")
    ELSE [c EXCEPT !.out = SubSeq(edata, u.n + 1, u.n + u.val)]

\* int(index) of a uint64 index: Huge stands for the indexes with the top
\* bit set, which the conversion makes negative
int(index) == IF index >= Huge THEN (index - Huge) - Huge ELSE index

\* s.cpos[index] is reached with an index past the spans when int(index) is
\* negative, and the index expression panics
entryAt(c, cpos, index) ==
    IF int(index) >= Len(cpos) THEN Fail(c, "ErrEOF")
    ELSE IF index >= Len(cpos) THEN Fail(c, "panic")
    ELSE decode(c, SubSeq(c.l.segments[c.s].cbuf, cpos[index + 1].pos + 1, cpos[index + 1].end),
                Uvarint(SubSeq(c.l.segments[c.s].cbuf, cpos[index + 1].pos + 1,
                               cpos[index + 1].end)))

\* a Read that reports a segment number above the tail's as missing
ReadCallKnownSegments(lg, fs, segment, index, f) ==
    IF Refused(lg) # "nil" THEN Fail(Ctx(lg, fs, EmptyBatch), Refused(lg))
    ELSE IF segment = 0 \/ segment > lg.segments[Len(lg.segments)].index
         THEN Fail(Ctx(lg, fs, EmptyBatch), "ErrSegNotFound")
    ELSE Then(loadSegment(Ctx(lg, fs, EmptyBatch), segment, f),
              LAMBDA x : entryAt(x, x.l.segments[x.s].cpos, index))

ReadCall(lg, fs, segment, index, f) ==
    IF Refused(lg) # "nil" THEN Fail(Ctx(lg, fs, EmptyBatch), Refused(lg))
    ELSE IF segment = 0 THEN Fail(Ctx(lg, fs, EmptyBatch), "ErrSegNotFound")
    ELSE Then(loadSegment(Ctx(lg, fs, EmptyBatch), segment, f),
              LAMBDA x : entryAt(x, x.l.segments[x.s].cpos, index))

SegmentsCall(lg) == Len(lg.segments)

SyncCall(lg, fs, f) ==
    IF Refused(lg) # "nil" THEN Fail(Ctx(lg, fs, EmptyBatch), Refused(lg))
    ELSE FileSync(Ctx(lg, fs, EmptyBatch), f)

closed(c) ==
    IF c.l.corrupt THEN Fail([c EXCEPT !.l.closed = TRUE], "ErrLogCorrupt")
    ELSE [c EXCEPT !.l.closed = TRUE]

CloseCall(lg, fs, f) ==
    IF lg.closed THEN Fail(Ctx(lg, fs, EmptyBatch), Refused(lg))
    ELSE Then(Then(FileSync(Ctx(lg, fs, EmptyBatch), f), LAMBDA x : FileClose(x, f)),
              LAMBDA x : closed(x))

----------------------------------------------------------------------------
(* Open *)

\* the segments found in the directory, in the order os.ReadDir lists them
Discover(fs) == [i \in 1..Len(fs) |-> NewSegment(i)]

load(c, f) ==
    IF Len(Discover(c.files)) = 0
    THEN OpenFileCreate([c EXCEPT !.l.segments = <<NewSegment(1)>>], 1, f)
    ELSE Then(OpenFileAppend([c EXCEPT !.l.segments = Discover(c.files)],
                             Len(c.files), f),
              LAMBDA x : loadSegmentEntries(x, Len(x.l.segments), f))

NewLog(nosync) ==
    [segments |-> << >>, sfile |-> NilFile, wbatch |-> EmptyBatch,
     opts |-> [NoSync |-> nosync, SegmentSize |-> SegSize],
     closed |-> FALSE, corrupt |-> FALSE]

OpenCall(fs, nosync, f) == load(Ctx(NewLog(nosync), fs, EmptyBatch), f)

----------------------------------------------------------------------------
(* The state machine *)

MaxFrame == 3                     \* bytes of the longest framed payload
MaxIO == (4 * MaxBatch) + 5       \* I/O calls one WriteBatch can make
Faults == {[at |-> k, short |-> n] : k \in 1..MaxIO,
                                     n \in 0..((MaxBatch * MaxFrame) - 1)}

\* the faults a call may be given: none, or any while the budget lasts
MayFail == IF hist.faults < MaxFaults THEN {NoFault} \cup Faults ELSE {NoFault}

\* a fault that no I/O call of the handler reached is no fault, and the
\* bytes of a short write are counted once
Fired(c, f) == f = NoFault \/ (c.hit /\ c.short = f.short)

Event(op, n) == [op |-> op, err |-> "nil", out |-> << >>, n |-> n, hit |-> FALSE]

NoHistory ==
    [faults |-> 0, calls |-> 0, opens |-> 0, crashed |-> FALSE,
     batched |-> FALSE, nosync |-> FALSE, fops |-> {}]

Init ==
    /\ files = << >>
    /\ l = NoLog
    /\ batch = EmptyBatch
    /\ last = Event("none", 0)
    /\ acked = << >>
    /\ hist = NoHistory
    /\ Alone

Live == l # NoLog

\* the call op ran to context c under fault f: the files are as it left
\* them, last holds what it returned (n: the segment a Read was asked for)
Return(op, c, f, n) ==
    /\ Fired(c, f)
    /\ files' = c.files
    /\ last' = [op |-> op, err |-> c.err, out |-> c.out, n |-> n, hit |-> c.hit]

Count(op, c, calls) ==
    [hist EXCEPT !.faults = IF c.hit THEN @ + 1 ELSE @,
                 !.fops = IF c.hit THEN @ \cup {op} ELSE @,
                 !.calls = @ + calls]

Opened(c, f, nosync) ==
    /\ Return("Open", c, f, 0)
    /\ l' = IF c.err = "nil" THEN c.l ELSE NoLog
    /\ hist' = [Count("Open", c, 0) EXCEPT !.opens = @ + 1,
                                           !.nosync = @ \/ nosync]
    /\ UNCHANGED <<batch, acked>>

OpenWith(nosyncs) ==
    /\ IF l = NoLog THEN TRUE ELSE l.closed
    /\ hist.opens < MaxOpens
    /\ \E nosync \in nosyncs, f \in MayFail :
         Opened(OpenCall(files, nosync, f), f, nosync)
    /\ UNCHANGED aux

\* Open(path, nil), as every caller of the repository opens a digest
Open == OpenWith({DefaultOptions.NoSync})

\* Open with either setting of Options.NoSync
OpenAny == OpenWith(BOOLEAN)

Written(c, f, data) ==
    /\ Return("Write", c, f, 0)
    /\ l' = c.l
    /\ acked' = IF c.err = "nil" THEN Append(acked, data) ELSE acked
    /\ hist' = Count("Write", c, 1)
    /\ UNCHANGED batch

Write ==
    /\ Live
    /\ hist.calls < MaxCalls
    /\ \E data \in Payloads, f \in MayFail : Written(WriteCall(l, files, data, f), f, data)
    /\ UNCHANGED aux

\* Batch.Write on the caller's batch
BatchWrite ==
    /\ Live
    /\ Len(batch.entries) < MaxBatch
    /\ hist.calls < MaxCalls
    /\ \E data \in Payloads : batch' = BatchWriteTo(batch, data)
    /\ hist' = [hist EXCEPT !.calls = @ + 1]
    /\ UNCHANGED <<files, l, last, acked>>
    /\ UNCHANGED aux

BatchWritten(c, f) ==
    /\ Return("WriteBatch", c, f, 0)
    /\ l' = c.l
    /\ batch' = c.b
    /\ acked' = IF c.err = "nil"
                THEN acked \o BatchPayloads(batch.entries, batch.data, 1)
                ELSE acked
    /\ hist' = [Count("WriteBatch", c, 1) EXCEPT !.batched = TRUE]

WriteBatch ==
    /\ Live
    /\ hist.calls < MaxCalls
    /\ \E f \in MayFail : BatchWritten(WriteBatchCall(l, files, batch, f), f)
    /\ UNCHANGED aux

Called(op, c, f, calls, n) ==
    /\ Return(op, c, f, n)
    /\ l' = c.l
    /\ hist' = Count(op, c, calls)
    /\ UNCHANGED <<batch, acked>>

\* a direct call of cycle, as the rotation test makes
Cycle ==
    /\ Live
    /\ hist.calls < MaxCalls
    /\ \E f \in MayFail : Called("cycle", cycle(Ctx(l, files, EmptyBatch), f), f, 1, 0)
    /\ UNCHANGED aux

Read ==
    /\ Live
    /\ \E segment \in 0..(Len(l.segments) + 1), index \in (0..MaxCalls) \cup {Huge} :
         Called("Read", ReadCall(l, files, segment, index, NoFault), NoFault, 0, segment)
    /\ UNCHANGED aux

Sync ==
    /\ Live
    /\ \E f \in MayFail : Called("Sync", SyncCall(l, files, f), f, 0, 0)
    /\ UNCHANGED aux

Segments ==
    /\ Live
    /\ last' = Event("Segments", SegmentsCall(l))
    /\ UNCHANGED <<files, l, batch, acked, hist>>
    /\ UNCHANGED aux

Close ==
    /\ Live
    /\ \E f \in MayFail : Called("Close", CloseCall(l, files, f), f, 0, 0)
    /\ UNCHANGED aux

Next ==
    \/ Open
    \/ Write
    \/ BatchWrite
    \/ WriteBatch
    \/ Cycle
    \/ Read
    \/ Sync
    \/ Segments
    \/ Close

Spec == Init /\ [][Next]_vars

----------------------------------------------------------------------------
(* Durability: the same log with either NoSync setting, and a crash of the *)
(* process that loses what no fsync has made durable.                      *)

\* what a crash can leave of a file: the synced bytes and any part of the rest
Survivors(file) ==
    {SubSeq(file.content, 1, n) : n \in Len(file.synced)..Len(file.content)}

Crash ==
    /\ Live
    /\ ~hist.crashed
    /\ \E keep \in [DOMAIN files -> UNION {Survivors(files[i]) : i \in DOMAIN files}] :
         /\ \A i \in DOMAIN files : keep[i] \in Survivors(files[i])
         /\ files' = [i \in DOMAIN files |-> [content |-> keep[i], synced |-> keep[i]]]
    /\ l' = NoLog
    /\ batch' = EmptyBatch
    /\ last' = Event("Crash", 0)
    /\ hist' = [hist EXCEPT !.crashed = TRUE]
    /\ UNCHANGED acked
    /\ UNCHANGED aux

NextCrash ==
    \/ OpenAny
    \/ Write
    \/ BatchWrite
    \/ WriteBatch
    \/ Close
    \/ Crash

SpecCrash == Init /\ [][NextCrash]_vars

----------------------------------------------------------------------------
(* Truncation: a directory whose tail segment file was cut at some byte,   *)
(* as a crash in the middle of a write or a truncation of the file leaves  *)
(* it, and the calls made on it afterwards.                                *)

BigPayload == [i \in 1..BigLen |-> 7]

CutPayloads == Payloads \cup {BigPayload}

\* the bytes of a segment file that holds exactly these records
RECURSIVE Frame(_)
Frame(recs) ==
    IF Len(recs) = 0 THEN << >>
    ELSE appendBinaryEntry(Frame(SubSeq(recs, 1, Len(recs) - 1)), recs[Len(recs)]).out

WholeFile(bytes) == [content |-> bytes, synced |-> bytes]

CutRecords == UNION {[1..n -> CutPayloads] : n \in 1..MaxCutRecs}

\* acked holds the records the tail held before the cut
InitCut ==
    /\ \E recs \in CutRecords, older \in BOOLEAN :
         \E n \in 0..Len(Frame(recs)) :
            /\ acked = recs
            /\ files = (IF older THEN <<WholeFile(Frame(<<<<2, 3>>, <<1>>>>))>> ELSE << >>)
                          \o <<WholeFile(SubSeq(Frame(recs), 1, n))>>
    /\ l = NoLog
    /\ batch = EmptyBatch
    /\ last = Event("none", 0)
    /\ hist = [NoHistory EXCEPT !.crashed = TRUE]
    /\ Alone

NextCut ==
    \/ Open
    \/ Read
    \/ Close

SpecCut == InitCut /\ [][NextCut]_vars

----------------------------------------------------------------------------
(* What a scan reads: segments 1..Segments() in order, each from index 0   *)
(* until ErrEOF, as queryDigest and the tests read a log. Reads load       *)
(* segments, so the log is threaded through the scan.                      *)

RECURSIVE scanFrom(_, _, _, _, _)
scanNext(c, fs, s, idx, recs) ==
    IF c.err = "ErrEOF" THEN scanFrom(c.l, fs, s + 1, 0, recs)
    ELSE IF c.err # "nil" THEN [recs |-> recs, err |-> c.err, l |-> c.l]
    ELSE scanFrom(c.l, fs, s, idx + 1, Append(recs, c.out))

scanFrom(lg, fs, s, idx, recs) ==
    IF s > SegmentsCall(lg) THEN [recs |-> recs, err |-> "nil", l |-> lg]
    ELSE scanNext(ReadCall(lg, fs, s, idx, NoFault), fs, s, idx, recs)

Scan(lg, fs) == scanFrom(lg, fs, 1, 0, << >>)

\* a occurs in b as a subsequence
RECURSIVE IsSubseq(_, _)
IsSubseq(a, b) ==
    IF Len(a) = 0 THEN TRUE
    ELSE IF Len(b) = 0 THEN FALSE
    ELSE IF a[1] = b[1] THEN IsSubseq(Drop(a, 1), Drop(b, 1))
    ELSE IsSubseq(a, Drop(b, 1))

Usable == Live /\ ~l.closed /\ ~l.corrupt

\* no I/O failure so far, and every record written with Write
Plain == hist.faults = 0 /\ ~hist.batched

----------------------------------------------------------------------------
(* Goroutines: several callers of one open Log. Every exported call but    *)
(* Segments takes l.mu first and releases it when it returns (defer):      *)
(* Write, WriteBatch, Sync and Close with Lock, Read with RLock. A writer  *)
(* that has called Lock keeps new readers out and waits for the readers    *)
(* that hold the lock to leave.                                            *)

MaxThreads == 3

Threads == 1..MaxThreads

Writers == {"Write", "WriteBatch", "Sync", "Close"}

Readers == {"Read"}

Idle == [op |-> "none", at |-> "idle"]

\* the batch a caller has staged for its WriteBatch
StagedBatch == BatchWriteTo(BatchWriteTo(EmptyBatch, <<1>>), <<2, 3>>)

\* RLock with no look at the writer
CanRLockAlways(m) == TRUE

\* RLock goes through while no writer has called Lock
CanRLock(m) == m.w = 0

\* Lock: one writer at a time gets past the writers' mutex
CanLock(m) == m.w = 0

\* and then waits until no reader holds the lock
Drained(m) == m.readers = {}

At(t, ops, places) == pc[t].op \in ops /\ pc[t].at \in places

Goto(t, place) == pc' = [pc EXCEPT ![t].at = place]

InitLock ==
    /\ files = OpenCall(<< >>, DefaultOptions.NoSync, NoFault).files
    /\ l = OpenCall(<< >>, DefaultOptions.NoSync, NoFault).l
    /\ batch = StagedBatch
    /\ last = Event("Open", 0)
    /\ acked = << >>
    /\ hist = [NoHistory EXCEPT !.opens = 1]
    /\ mu = Unlocked
    /\ pc = [t \in Threads |-> Idle]
    /\ rag = NoRag

\* a goroutine calls the log
Call ==
    \E t \in Threads, op \in Writers \cup Readers \cup {"Segments"} :
        /\ pc[t] = Idle
        /\ pc' = [pc EXCEPT ![t] = [op |-> op, at |-> "lock"]]
        /\ UNCHANGED <<files, l, batch, last, acked, hist, mu, rag>>

\* l.mu.Lock(), first half: past the writers' mutex, new readers are held off
Lock ==
    \E t \in Threads :
        /\ At(t, Writers, {"lock"})
        /\ CanLock(mu)
        /\ mu' = [mu EXCEPT !.w = t]
        /\ Goto(t, "wait")
        /\ UNCHANGED <<files, l, batch, last, acked, hist, rag>>

\* l.mu.Lock(), second half: the readers have left
Locked ==
    \E t \in Threads :
        /\ At(t, Writers, {"wait"})
        /\ Drained(mu)
        /\ mu' = [mu EXCEPT !.held = TRUE]
        /\ Goto(t, "body")
        /\ UNCHANGED <<files, l, batch, last, acked, hist, rag>>

\* l.mu.RLock()
RLock ==
    \E t \in Threads :
        /\ At(t, Readers, {"lock"})
        /\ CanRLock(mu)
        /\ mu' = [mu EXCEPT !.readers = @ \cup {t}]
        /\ Goto(t, "body")
        /\ UNCHANGED <<files, l, batch, last, acked, hist, rag>>

\* the body of the call, run with the lock held
WriteBody ==
    \E t \in Threads, data \in Payloads :
        /\ At(t, {"Write"}, {"body"})
        /\ Written(WriteCall(l, files, data, NoFault), NoFault, data)
        /\ Goto(t, "unlock")
        /\ UNCHANGED <<mu, rag>>

WriteBatchBody ==
    \E t \in Threads :
        /\ At(t, {"WriteBatch"}, {"body"})
        /\ BatchWritten(WriteBatchCall(l, files, batch, NoFault), NoFault)
        /\ Goto(t, "unlock")
        /\ UNCHANGED <<mu, rag>>

SyncBody ==
    \E t \in Threads :
        /\ At(t, {"Sync"}, {"body"})
        /\ Called("Sync", SyncCall(l, files, NoFault), NoFault, 0, 0)
        /\ Goto(t, "unlock")
        /\ UNCHANGED <<mu, rag>>

CloseBody ==
    \E t \in Threads :
        /\ At(t, {"Close"}, {"body"})
        /\ Called("Close", CloseCall(l, files, NoFault), NoFault, 0, 0)
        /\ Goto(t, "unlock")
        /\ UNCHANGED <<mu, rag>>

ReadBody ==
    \E t \in Threads, segment \in 1..Len(l.segments), index \in 0..1 :
        /\ At(t, {"Read"}, {"body"})
        /\ Called("Read", ReadCall(l, files, segment, index, NoFault), NoFault, 0, segment)
        /\ Goto(t, "unlock")
        /\ UNCHANGED <<mu, rag>>

\* the deferred l.mu.Unlock()
Unlock ==
    \E t \in Threads :
        /\ At(t, Writers, {"unlock"})
        /\ mu' = [mu EXCEPT !.w = 0, !.held = FALSE]
        /\ Goto(t, "done")
        /\ UNCHANGED <<files, l, batch, last, acked, hist, rag>>

\* the deferred l.mu.RUnlock()
RUnlock ==
    \E t \in Threads :
        /\ At(t, Readers, {"unlock"})
        /\ mu' = [mu EXCEPT !.readers = @ \ {t}]
        /\ Goto(t, "done")
        /\ UNCHANGED <<files, l, batch, last, acked, hist, rag>>

\* Segments takes no lock
SegmentsBody ==
    \E t \in Threads :
        /\ At(t, {"Segments"}, {"lock"})
        /\ last' = Event("Segments", SegmentsCall(l))
        /\ Goto(t, "done")
        /\ UNCHANGED <<files, l, batch, acked, hist, mu, rag>>

NextLock ==
    \/ Call
    \/ Lock
    \/ Locked
    \/ RLock
    \/ WriteBody
    \/ WriteBatchBody
    \/ SyncBody
    \/ CloseBody
    \/ ReadBody
    \/ Unlock
    \/ RUnlock
    \/ SegmentsBody

SpecLock == InitLock /\ [][NextLock]_vars

----------------------------------------------------------------------------
(* The codec of the digest records: a Document (embedding, content,        *)
(* metadata) as bytes. Lengths are 8 bytes little endian, an embedding     *)
(* value is the 4 bytes of its float32 bit pattern, little endian, the     *)
(* content is gzipped when it is not empty. A float32 is modelled by the   *)
(* integer it holds; other bit patterns are kept as bits.                  *)

\* n in width bytes, little endian
RECURSIVE PutLE(_, _)
PutLE(n, width) ==
    IF width = 0 THEN << >> ELSE <<n % 256>> \o PutLE(n \div 256, width - 1)

\* the value of little-endian bytes, every value too large collapsed to Huge
RECURSIVE GetLE(_)
GetLE(bytes) ==
    IF Len(bytes) = 0 THEN 0
    ELSE IF GetLE(Drop(bytes, 1)) >= Huge \div 256 THEN Huge
    ELSE bytes[1] + (256 * GetLE(Drop(bytes, 1)))

Reverse(s) == [i \in 1..Len(s) |-> s[(Len(s) + 1) - i]]

Abs(v) == IF v < 0 THEN 0 - v ELSE v

RECURSIVE Log2(_)
Log2(n) == IF n < 2 THEN 0 ELSE 1 + Log2(n \div 2)

\* sign, exponent and mantissa of the float32 that holds the integer v,
\* most significant byte first
Float32bits(v) ==
    IF v = 0 THEN <<0, 0, 0, 0>>
    ELSE <<((IF v < 0 THEN 128 ELSE 0) + ((127 + Log2(Abs(v))) \div 2)),
           (((127 + Log2(Abs(v))) % 2) * 128)
               + (((Abs(v) - (2 ^ Log2(Abs(v)))) * (2 ^ (23 - Log2(Abs(v))))) \div 65536),
           (((Abs(v) - (2 ^ Log2(Abs(v)))) * (2 ^ (23 - Log2(Abs(v))))) \div 256) % 256,
           ((Abs(v) - (2 ^ Log2(Abs(v)))) * (2 ^ (23 - Log2(Abs(v))))) % 256>>

\* the float32 of a bit pattern with exponent field e and mantissa m
Float32of(bits, neg, e, m) ==
    IF e = 0 /\ m = 0 THEN 0
    ELSE IF e < 127 \/ e > 150 \/ m % (2 ^ (150 - e)) # 0 THEN [bits |-> bits]
    ELSE (IF neg THEN 0 - 1 ELSE 1) * ((2 ^ (e - 127)) + (m \div (2 ^ (150 - e))))

Float32frombits(b) ==
    Float32of(b, b[1] >= 128, ((b[1] % 128) * 2) + (b[2] \div 128),
              ((b[2] % 128) * 65536) + (b[3] * 256) + b[4])

\* binary.Write and binary.Read of one float32, little endian
PutFloat32(v) == Reverse(Float32bits(v))

GetFloat32(bytes) == Float32frombits(Reverse(bytes))

RECURSIVE PutFloats(_)
PutFloats(vs) ==
    IF Len(vs) = 0 THEN << >> ELSE PutFloat32(vs[1]) \o PutFloats(Drop(vs, 1))

GetFloats(bytes, n) == [i \in 1..n |-> GetFloat32(SubSeq(bytes, (4 * i) - 3, 4 * i))]

\* gzip: a ten-byte header, the data in one stored block (final-block byte,
\* length, complement of the length), a checksum of the data and its size
GzipHeader == <<31, 139, 8, 0, 0, 0, 0, 0, 0, 255>>

RECURSIVE Checksum(_)
Checksum(bytes) ==
    IF Len(bytes) = 0 THEN 0
    ELSE ((31 * Checksum(SubSeq(bytes, 1, Len(bytes) - 1))) + bytes[Len(bytes)] + 1) % 65521

Gzip(bytes) ==
    GzipHeader \o <<1>> \o PutLE(Len(bytes), 2) \o PutLE(65535 - Len(bytes), 2)
               \o bytes \o PutLE(Checksum(bytes), 4) \o PutLE(Len(bytes), 4)

\* gzip.NewReader: the header is read and checked
GzipHeaderOk(z) == Len(z) >= 10 /\ SubSeq(z, 1, 10) = GzipHeader

\* the data of the stream z read to its end, checksum and size verified
GunzipBody(z, n) ==
    IF Len(z) < 15 \/ z[11] # 1 \/ GetLE(SubSeq(z, 14, 15)) # 65535 - GetLE(SubSeq(z, 12, 13))
    THEN [err |-> TRUE, data |-> << >>]
    ELSE IF Len(z) < 23 + n
              \/ GetLE(SubSeq(z, 16 + n, 19 + n)) # Checksum(SubSeq(z, 16, 15 + n))
              \/ GetLE(SubSeq(z, 20 + n, 23 + n)) # n
    THEN [err |-> TRUE, data |-> << >>]
    ELSE [err |-> FALSE, data |-> SubSeq(z, 16, 15 + n)]

Gunzip(z) == GunzipBody(z, IF Len(z) < 13 THEN 0 ELSE GetLE(SubSeq(z, 12, 13)))

\* a map with no key; a Document as declared (nil embedding, nil map)
NoKeys == << >>

ZeroDoc ==
    [embedding |-> << >>, content |-> << >>, metadata |-> [nil |-> TRUE, kv |-> NoKeys]]

\* the length written before the gzipped content: the one of the content
ContentLenPlain(content, z) == Len(content)

\* the length written before the gzipped content: the one of the gzip bytes
ContentLen(content, z) == Len(z)

putContent(content) ==
    IF Len(content) > 0
    THEN PutLE(ContentLen(content, Gzip(content)), 8) \o Gzip(content)
    ELSE PutLE(0, 8)

\* the pairs of the map in the order the range loop visits the keys
RECURSIVE putPairs(_, _)
putPairs(kv, order) ==
    IF Len(order) = 0 THEN << >>
    ELSE PutLE(Len(order[1]), 8) \o order[1]
            \o PutLE(Len(kv[order[1]]), 8) \o kv[order[1]]
            \o putPairs(kv, Drop(order, 1))

putMetadata(kv, order) ==
    IF Cardinality(DOMAIN kv) > 0
    THEN PutLE(Cardinality(DOMAIN kv), 8) \o putPairs(kv, order)
    ELSE PutLE(0, 8)

\* order: the order in which range doc.metadata yields the keys
serializeDoc(doc, order) ==
    PutLE(Len(doc.embedding), 8) \o PutFloats(doc.embedding)
        \o putContent(doc.content) \o putMetadata(doc.metadata.kv, order)

\* the orders a range over the map may take
Orders(kv) ==
    {o \in [1..Cardinality(DOMAIN kv) -> DOMAIN kv] :
        \A i \in DOMAIN o, j \in DOMAIN o : o[i] = o[j] => i = j}

Zeros(n) == [i \in 1..n |-> 0]

\* decoding runs on d: the bytes left in buf, the Document built so far,
\* the error, the length read last (n) and the bytes read last
Decoding(data) == [buf |-> data, doc |-> ZeroDoc, err |-> "nil", n |-> 0, bytes |-> << >>]

\* binary.Read of a uint64: all 8 bytes or an error
readUint64(d, what) ==
    IF Len(d.buf) < 8 THEN [d EXCEPT !.err = what, !.buf = << >>]
    ELSE [d EXCEPT !.n = GetLE(SubSeq(d.buf, 1, 8)), !.buf = Drop(d.buf, 8)]

\* make([]byte, n) and bytes.Buffer.Read into it: an error only when the
\* buffer is empty, else the bytes there are, the rest left zero
bufRead(d, what) ==
    IF d.n >= Huge THEN [d EXCEPT !.err = "panic"]
    ELSE IF Len(d.buf) = 0 /\ d.n > 0 THEN [d EXCEPT !.err = what]
    ELSE [d EXCEPT !.bytes = SubSeq(d.buf, 1, Min(d.n, Len(d.buf)))
                                 \o Zeros(d.n - Min(d.n, Len(d.buf))),
                   !.buf = Drop(d.buf, Min(d.n, Len(d.buf)))]

\* doc.embedding = make([]float32, n) and binary.Read into it
readEmbedding(d) ==
    IF d.n >= Huge THEN [d EXCEPT !.err = "panic"]
    ELSE IF Len(d.buf) < 4 * d.n
    THEN [d EXCEPT !.doc.embedding = Zeros(d.n), !.buf = << >>,
                   !.err = "error reading embedding"]
    ELSE [d EXCEPT !.doc.embedding = GetFloats(d.buf, d.n), !.buf = Drop(d.buf, 4 * d.n)]

gunzip(d) ==
    IF ~GzipHeaderOk(d.bytes) THEN [d EXCEPT !.err = "error creating gzip reader"]
    ELSE IF Gunzip(d.bytes).err THEN [d EXCEPT !.err = "error decompressing content"]
    ELSE [d EXCEPT !.doc.content = Gunzip(d.bytes).data]

readContent(d) ==
    IF d.n > 0
    THEN Then(bufRead(d, "error reading compressed content"), LAMBDA x : gunzip(x))
    ELSE d

\* doc.metadata[key] = value
Put(kv, key, value) ==
    [k \in DOMAIN kv \cup {key} |-> IF k = key THEN value ELSE kv[k]]

readValue(d, key) ==
    Then(Then(readUint64(d, "error reading value size"),
              LAMBDA x : bufRead(x, "error reading value")),
         LAMBDA x : [x EXCEPT !.doc.metadata.kv = Put(@, key, x.bytes)])

readPair(d) ==
    Then(Then(readUint64(d, "error reading key size"),
              LAMBDA x : bufRead(x, "error reading key")),
         LAMBDA x : readValue(x, x.bytes))

RECURSIVE readPairs(_, _)
readPairs(d, left) ==
    IF d.err # "nil" \/ left = 0 THEN d ELSE readPairs(readPair(d), left - 1)

readMetadata(d) ==
    readPairs([d EXCEPT !.doc.metadata = [nil |-> FALSE, kv |-> NoKeys]], d.n)

\* the Document and the error deserializeDoc returns
deserializeDoc(data) ==
    Then(Then(Then(Then(Then(readUint64(Decoding(data), "error reading embedding length"),
                             LAMBDA x : readEmbedding(x)),
                        LAMBDA x : readUint64(x, "error reading content length")),
                   LAMBDA x : readContent(x)),
              LAMBDA x : readUint64(x, "error reading metadata length")),
         LAMBDA x : readMetadata(x))

\* the Documents of the model
Embeddings == {<< >>, <<1>>, <<0 - 2, 3>>}

Contents == {<< >>, <<104>>, <<104, 0>>}

Strings == {<< >>, <<97>>, <<98, 99>>}

Maps ==
    {NoKeys} \cup {Put(NoKeys, k, v) : k \in Strings, v \in Strings}
             \cup {Put(Put(NoKeys, << >>, v), <<97>>, w) : v \in Strings, w \in {<< >>, <<98, 99>>}}

Docs ==
    {[embedding |-> e, content |-> c, metadata |-> [nil |-> nl, kv |-> m]] :
        e \in Embeddings, c \in Contents, nl \in BOOLEAN, m \in Maps} \
    [embedding : Embeddings, content : Contents,
     metadata : [nil : {TRUE}, kv : Maps \ {NoKeys}]]

NoResult == [doc |-> ZeroDoc, err |-> "none"]

InitCodec ==
    /\ files = << >>
    /\ l = NoLog
    /\ batch = EmptyBatch
    /\ last = Event("none", 0)
    /\ acked = << >>
    /\ hist = NoHistory
    /\ mu = Unlocked
    /\ pc = << >>
    /\ \E doc \in Docs : rag = [doc |-> doc, data |-> << >>, at |-> "doc", out |-> NoResult]

Serialize ==
    /\ rag.at = "doc"
    /\ \E order \in Orders(rag.doc.metadata.kv) :
          rag' = [rag EXCEPT !.data = serializeDoc(rag.doc, order), !.at = "whole"]
    /\ UNCHANGED <<files, l, batch, last, acked, hist, mu, pc>>

\* the encoding loses its end
Truncate ==
    /\ rag.at = "whole"
    /\ rag.out = NoResult
    /\ \E n \in 0..(Len(rag.data) - 1) :
          rag' = [rag EXCEPT !.data = SubSeq(rag.data, 1, n), !.at = "cut"]
    /\ UNCHANGED <<files, l, batch, last, acked, hist, mu, pc>>

\* the embedding length of the encoding is overwritten with the largest
\* uint64, as a damaged or foreign record may hold it
Forge ==
    /\ rag.at = "whole"
    /\ rag.out = NoResult
    /\ rag' = [rag EXCEPT !.data = [i \in 1..8 |-> 255] \o Drop(rag.data, 8),
                          !.at = "forged"]
    /\ UNCHANGED <<files, l, batch, last, acked, hist, mu, pc>>

Deserialize ==
    /\ rag.at \in {"whole", "cut", "forged"}
    /\ rag.out = NoResult
    /\ rag' = [rag EXCEPT !.out = [doc |-> deserializeDoc(rag.data).doc,
                                   err |-> deserializeDoc(rag.data).err]]
    /\ UNCHANGED <<files, l, batch, last, acked, hist, mu, pc>>

NextCodec ==
    \/ Serialize
    \/ Truncate
    \/ Forge
    \/ Deserialize

SpecCodec == InitCodec /\ [][NextCodec]_vars

----------------------------------------------------------------------------
(* The selection of a query: at most k results, best score first. A score  *)
(* is a finite float32, modelled by an integer; sort.Slice sorts a slice   *)
(* of at most 12 elements by insertion, which is what is modelled here.    *)

MaxK == 3
MaxAppends == 4
MaxScore == 2

Scores == 0..MaxScore

DocIds == 1..2

\* a QueryResult: the document (here its identity) and its score
Items == [doc : DocIds, mmr : Scores]

\* the less function handed to sort.Slice
less(a, b) == a.mmr > b.mmr

swap(s, i, j) == [s EXCEPT ![i] = s[j], ![j] = s[i]]

\* the inner loop of the insertion sort: element j moves down while it is
\* less than the one before it
RECURSIVE sink(_, _)
sink(s, j) ==
    IF j > 1 /\ less(s[j], s[j - 1]) THEN sink(swap(s, j, j - 1), j - 1) ELSE s

RECURSIVE insertionSort(_, _)
insertionSort(s, i) ==
    IF i > Len(s) THEN s ELSE insertionSort(sink(s, i), i + 1)

sortSlice(s) == insertionSort(s, 2)

appendToSelectionUncut(selection, item, k) == sortSlice(Append(selection, item))

appendToSelectionUnsorted(selection, item, k) ==
    LET result == Append(selection, item)
    IN  IF Len(result) > k THEN SubSeq(result, 1, k) ELSE result

appendToSelection(selection, item, k) ==
    LET result == sortSlice(Append(selection, item))
    IN  IF Len(result) > k THEN SubSeq(result, 1, k) ELSE result

\* the selections a first call can be handed: any short list, in any order
Selections == UNION {[1..n -> Items] : n \in 0..2}

InitSelect ==
    /\ files = << >>
    /\ l = NoLog
    /\ batch = EmptyBatch
    /\ last = Event("none", 0)
    /\ acked = << >>
    /\ hist = NoHistory
    /\ mu = Unlocked
    /\ pc = << >>
    /\ \E s \in Selections : rag = [selection |-> s, k |-> 0, calls |-> 0]

\* one call, fed the result of the call before it
AppendToSelection ==
    /\ rag.calls < MaxAppends
    /\ \E item \in Items, k \in 0..MaxK :
          rag' = [selection |-> appendToSelection(rag.selection, item, k),
                  k |-> k, calls |-> rag.calls + 1]
    /\ UNCHANGED <<files, l, batch, last, acked, hist, mu, pc>>

NextSelect == AppendToSelection

SpecSelect == InitSelect /\ [][NextSelect]_vars

----------------------------------------------------------------------------
(* A query over several digests. A digest is taken as the records a scan   *)
(* of its log reads and decodes without error: the embeddings of its       *)
(* documents, in order. A document is told from the others by its content, *)
(* here the digest and the place it was read from. lambda is a multiple of *)
(* 1/LambdaScale and a score is kept multiplied by LambdaScale, so that    *)
(* scores are integers.                                                    *)

MaxDigests == 2
MaxRecords == 2
Dim == 2
LambdaScale == 2

Vectors == [1..Dim -> 0..1]

Digests == UNION {[1..n -> Vectors] : n \in 0..MaxRecords}

RECURSIVE dotFrom(_, _, _)
dotFrom(a, b, i) ==
    IF i > Len(a) THEN 0 ELSE a[i] * b[i] + dotFrom(a, b, i + 1)

dotProductFromSecond(a, b) == dotFrom(a, b, 2)

dotProduct(a, b) == dotFrom(a, b, 1)

Max(x, y) == IF x >= y THEN x ELSE y

\* the redundancy of an embedding: its largest product with a candidate
RECURSIVE sim2From(_, _, _)
sim2From(e, cand, i) ==
    IF i > Len(cand) THEN 0
    ELSE Max(dotProduct(e, cand[i].doc.embedding), sim2From(e, cand, i + 1))

mmrOfRelevance(q, e, cand, lambda) == lambda * dotProduct(q, e)

mmrOf(q, e, cand, lambda) ==
    lambda * dotProduct(q, e) - (LambdaScale - lambda) * sim2From(e, cand, 1)

\* a scan that scores a record against what it has selected so far
RECURSIVE scanDigestAgainstSelection(_, _, _, _, _, _, _, _)
scanDigestAgainstSelection(digest, path, idx, q, cand, k, lambda, selection) ==
    IF idx > Len(digest) THEN selection
    ELSE scanDigestAgainstSelection(digest, path, idx + 1, q, cand, k, lambda,
             appendToSelection(selection,
                 [doc |-> [embedding |-> digest[idx], content |-> <<path, idx>>],
                  mmr |-> mmrOf(q, digest[idx], cand \o selection, lambda)], k))

\* the scan of queryDigest from record idx on
RECURSIVE scanDigest(_, _, _, _, _, _, _, _)
scanDigest(digest, path, idx, q, cand, k, lambda, selection) ==
    IF idx > Len(digest) THEN selection
    ELSE scanDigest(digest, path, idx + 1, q, cand, k, lambda,
             appendToSelection(selection,
                 [doc |-> [embedding |-> digest[idx], content |-> <<path, idx>>],
                  mmr |-> mmrOf(q, digest[idx], cand, lambda)], k))

queryDigest(digest, path, q, cand, k, lambda) ==
    scanDigest(digest, path, 1, q, cand, k, lambda, << >>)

InitQuery ==
    /\ files = << >>
    /\ l = NoLog
    /\ batch = EmptyBatch
    /\ last = Event("none", 0)
    /\ acked = << >>
    /\ hist = NoHistory
    /\ mu = Unlocked
    /\ pc = << >>
    /\ \E n \in 1..MaxDigests :
       \E ds \in [1..n -> Digests], q \in Vectors, k \in 0..MaxK, lambda \in 0..LambdaScale :
          rag = [DigestPaths |-> ds, query |-> q, K |-> k, Lambda |-> lambda,
                 res |-> << >>, returned |-> << >>]

\* one turn of the loop over params.DigestPaths
QueryDigest ==
    /\ Len(rag.returned) < Len(rag.DigestPaths)
    /\ LET path == Len(rag.returned) + 1
           res == queryDigest(rag.DigestPaths[path], path, rag.query, rag.res,
                              rag.K, rag.Lambda)
       IN  rag' = [rag EXCEPT !.res = res, !.returned = Append(rag.returned, res)]
    /\ UNCHANGED <<files, l, batch, last, acked, hist, mu, pc>>

NextQuery == QueryDigest

SpecQuery == InitQuery /\ [][NextQuery]_vars

----------------------------------------------------------------------------
(* Scoring on its own: the score queryDigest gives a record, for           *)
(* embeddings with components of either sign, and dotProduct over vectors  *)
(* of every length up to MaxVecLen.                                        *)

MaxCand == 2
MaxVecLen == 3

SignedVectors == [1..Dim -> -1..1]

\* the lists of earlier results a call can be handed
Candidates ==
    UNION {[1..n -> [doc : [embedding : SignedVectors, content : {<< >>}], mmr : {0}]] :
              n \in 0..MaxCand}

\* the vectors of TestDotProduct
TestVectors == {<<1, 2, 3>>, <<4, 5, 6>>}

VectorsOfLen(n) ==
    [1..n -> -1..1] \cup {v \in TestVectors : Len(v) = n}

InitScore ==
    /\ files = << >>
    /\ l = NoLog
    /\ batch = EmptyBatch
    /\ last = Event("none", 0)
    /\ acked = << >>
    /\ hist = NoHistory
    /\ mu = Unlocked
    /\ pc = << >>
    /\ rag = [op |-> "none"]

\* the scores of two records a and b of a digest, as lines 82 to 85 give them
Score ==
    /\ rag.op = "none"
    /\ \E q \in SignedVectors, cand \in Candidates, lambda \in 0..LambdaScale,
          a \in SignedVectors, b \in SignedVectors :
          rag' = [op |-> "mmr", query |-> q, cand |-> cand, Lambda |-> lambda,
                  a |-> a, b |-> b,
                  mmrA |-> mmrOf(q, a, cand, lambda),
                  mmrB |-> mmrOf(q, b, cand, lambda)]
    /\ UNCHANGED <<files, l, batch, last, acked, hist, mu, pc>>

DotProduct ==
    /\ rag.op = "none"
    /\ \E n \in 0..MaxVecLen :
       \E a \in VectorsOfLen(n), b \in VectorsOfLen(n) :
          rag' = [op |-> "dot", a |-> a, b |-> b, dot |-> dotProduct(a, b)]
    /\ UNCHANGED <<files, l, batch, last, acked, hist, mu, pc>>

NextScore ==
    \/ Score
    \/ DotProduct

SpecScore == InitScore /\ [][NextScore]_vars

----------------------------------------------------------------------------
(* queryDigest step by step on a digest directory: Open and Segments, one  *)
(* turn of the inner loop per step (Read, deserializeDoc, the score,       *)
(* appendToSelection), and the return, which closes the log (defer). The   *)
(* directory holds segment files of encoded Documents; a record may also   *)
(* be too short to decode, and a file may have lost its last byte. When    *)
(* Open fails genLogFatal ends the process.                                *)

MaxScanSegs == 2

ScanVectors == {v \in Vectors : v[1] = 1}

ScanDoc(v) ==
    [embedding |-> v, content |-> << >>, metadata |-> [nil |-> TRUE, kv |-> NoKeys]]

\* a payload that is no encoding of a Document
BadPayload == <<1>>

ScanPayloads == {serializeDoc(ScanDoc(v), << >>) : v \in ScanVectors} \cup {BadPayload}

\* a segment of the directory: its records, and whether its file lost a byte
ScanSegments ==
    {sg \in [recs : UNION {[1..n -> ScanPayloads] : n \in 0..MaxRecords}, cut : BOOLEAN] :
        sg.cut => Len(sg.recs) > 0}

ScanFile(sg) ==
    IF sg.cut THEN WholeFile(SubSeq(Frame(sg.recs), 1, Len(Frame(sg.recs)) - 1))
    ELSE WholeFile(Frame(sg.recs))

InitScan ==
    /\ l = NoLog
    /\ batch = EmptyBatch
    /\ last = Event("none", 0)
    /\ acked = << >>
    /\ hist = NoHistory
    /\ mu = Unlocked
    /\ pc = 0
    /\ \E n \in 1..MaxScanSegs :
       \E digest \in [1..n -> ScanSegments], q \in ScanVectors, k \in 0..MaxK,
          lambda \in {0, LambdaScale} :
          /\ files = [s \in 1..n |-> ScanFile(digest[s])]
          /\ rag = [digest |-> digest, query |-> q, K |-> k, Lambda |-> lambda,
                    at |-> "start", segs |-> 0, s |-> 0, idx |-> 0,
                    selection |-> << >>, reads |-> << >>,
                    out |-> << >>, err |-> "nil"]

\* the deferred Close, then the return of the list and the error
returned(r, lg, fs, out, err) ==
    /\ rag' = [r EXCEPT !.at = "done", !.out = out, !.err = err]
    /\ l' = CloseCall(lg, fs, NoFault).l
    /\ files' = CloseCall(lg, fs, NoFault).files

\* the scan ends at the first ErrEOF
afterReadStopsAtEOF(r, c) ==
    IF c.err = "ErrEOF" THEN returned(r, c.l, c.files, r.selection, "nil")
    ELSE IF c.err # "nil" THEN returned(r, c.l, c.files, << >>, c.err)
    ELSE IF deserializeDoc(c.out).err # "nil"
         THEN returned(r, c.l, c.files, << >>, deserializeDoc(c.out).err)
    ELSE /\ rag' = [r EXCEPT
                      !.idx = @ + 1,
                      !.reads = Append(@, [s |-> r.s, idx |-> r.idx, data |-> c.out]),
                      !.selection = appendToSelection(@,
                          [doc |-> deserializeDoc(c.out).doc,
                           mmr |-> mmrOf(r.query, deserializeDoc(c.out).doc.embedding,
                                         << >>, r.Lambda)], r.K)]
         /\ l' = c.l
         /\ files' = c.files

\* what follows d.Read(s, idx) in the inner loop
afterRead(r, c) ==
    IF c.err = "ErrEOF"
    THEN /\ rag' = [r EXCEPT !.s = @ + 1, !.idx = 0]
         /\ l' = c.l
         /\ files' = c.files
    ELSE IF c.err # "nil" THEN returned(r, c.l, c.files, << >>, c.err)
    ELSE IF deserializeDoc(c.out).err # "nil"
         THEN returned(r, c.l, c.files, << >>, deserializeDoc(c.out).err)
    ELSE /\ rag' = [r EXCEPT
                      !.idx = @ + 1,
                      !.reads = Append(@, [s |-> r.s, idx |-> r.idx, data |-> c.out]),
                      !.selection = appendToSelection(@,
                          [doc |-> deserializeDoc(c.out).doc,
                           mmr |-> mmrOf(r.query, deserializeDoc(c.out).doc.embedding,
                                         << >>, r.Lambda)], r.K)]
         /\ l' = c.l
         /\ files' = c.files

\* a step of the goroutine that runs queryDigest, as its step counter shows it
Tick ==
    /\ rag.at \in {"start", "scan"}
    /\ pc' = pc + 1

\* Open(path, nil) and d.Segments()
ScanOpen ==
    /\ Tick
    /\ rag.at = "start"
    /\ LET c == OpenCall(files, FALSE, NoFault)
       IN  IF c.err # "nil"
           THEN /\ rag' = [rag EXCEPT !.at = "fatal", !.err = c.err]
                /\ UNCHANGED <<l, files>>
           ELSE /\ rag' = [rag EXCEPT !.at = "scan", !.segs = SegmentsCall(c.l),
                                      !.s = 1, !.idx = 0]
                /\ l' = c.l
                /\ files' = c.files
    /\ UNCHANGED <<batch, last, acked, hist, mu>>

\* one turn of the inner loop
ScanRead ==
    /\ Tick
    /\ rag.at = "scan"
    /\ rag.s <= rag.segs
    /\ afterRead(rag, ReadCall(l, files, rag.s, rag.idx, NoFault))
    /\ UNCHANGED <<batch, last, acked, hist, mu>>

\* the outer loop is over
ScanReturn ==
    /\ Tick
    /\ rag.at = "scan"
    /\ rag.s > rag.segs
    /\ returned(rag, l, files, rag.selection, "nil")
    /\ UNCHANGED <<batch, last, acked, hist, mu>>

NextScan ==
    \/ ScanOpen
    \/ ScanRead
    \/ ScanReturn

\* the goroutine that runs queryDigest keeps running: every step of NextScan
\* is a Tick, and NextScan can take a step whenever Tick can
SpecScan == InitScan /\ [][NextScan]_vars /\ WF_pc(Tick)

----------------------------------------------------------------------------
(* A log written through Write and WriteBatch alone: the calls of the      *)
(* exported interface, without the direct call of cycle.                   *)

NextWrites ==
    \/ Open
    \/ Write
    \/ BatchWrite
    \/ WriteBatch
    \/ Read
    \/ Sync
    \/ Segments
    \/ Close

SpecWrites == Init /\ [][NextWrites]_vars

----------------------------------------------------------------------------
(* Two goroutines that Read the first segment of a reopened log of two     *)
(* segments, which Open has not loaded. Read holds l.mu with RLock only, so *)
(* both can be inside loadSegment and Read at once: the statements of       *)
(* lines 359 to 398 are taken one step each. loadSegmentEntries assigns     *)
(* s.cbuf and s.cpos with no synchronisation between the readers; the other *)
(* goroutine can see either assignment before the other, so the two stores  *)
(* are two steps in either order.                                           *)

RaceReaders == 1..2

\* a log written, closed and opened again, at the end of each call
AfterWrite(c, data) == WriteCall(c.l, c.files, data, NoFault)

AfterReopen(c) ==
    OpenCall(CloseCall(c.l, c.files, NoFault).files, DefaultOptions.NoSync, NoFault)

RaceLog(first, second) ==
    AfterReopen(AfterWrite(AfterWrite(OpenCall(<< >>, DefaultOptions.NoSync, NoFault),
                                      first), second))

Reader(at, index) ==
    [op |-> "Read", at |-> at, index |-> index, ebuf |-> << >>, cpos |-> << >>,
     pending |-> {}, span |-> [pos |-> 0, end |-> 0], out |-> << >>, err |-> "nil"]

InitRace ==
    /\ \E first \in Payloads, second \in Payloads :
          /\ Len(RaceLog(first, second).l.segments) = 2
          /\ files = RaceLog(first, second).files
          /\ l = RaceLog(first, second).l
    /\ batch = EmptyBatch
    /\ last = Event("Open", 0)
    /\ acked = << >>
    /\ hist = [NoHistory EXCEPT !.opens = 2]
    /\ mu = Unlocked
    /\ pc = [t \in RaceReaders |-> Reader("idle", 0)]
    /\ rag = NoRag

\* a goroutine calls Read(1, index)
RaceCall ==
    \E t \in RaceReaders, index \in 0..2 :
        /\ pc[t].at = "idle"
        /\ pc' = [pc EXCEPT ![t] = Reader("lock", index)]
        /\ UNCHANGED <<files, l, batch, last, acked, hist, mu, rag>>

\* l.mu.RLock(): no writer is there
RaceRLock ==
    \E t \in RaceReaders :
        /\ pc[t].at = "lock"
        /\ CanRLock(mu)
        /\ mu' = [mu EXCEPT !.readers = @ \cup {t}]
        /\ pc' = [pc EXCEPT ![t].at = "loadSegment"]
        /\ UNCHANGED <<files, l, batch, last, acked, hist, rag>>

\* loadSegment: segment 1 is not the tail; if len(s.cpos) == 0
RaceLoadSegment ==
    \E t \in RaceReaders :
        /\ pc[t].at = "loadSegment"
        /\ pc' = [pc EXCEPT ![t].at = IF Len(l.segments[1].cpos) = 0
                                      THEN "loadSegmentEntries" ELSE "bounds"]
        /\ UNCHANGED <<files, l, batch, last, acked, hist, mu, rag>>

\* loadSegmentEntries up to the assignments: the file is read and parsed
\* into locals
RaceReadFile ==
    \E t \in RaceReaders :
        /\ pc[t].at = "loadSegmentEntries"
        /\ pc' = [pc EXCEPT ![t].at = "store",
                            ![t].ebuf = files[l.segments[1].index].content,
                            ![t].cpos = ParseEntries(files[l.segments[1].index].content, 0, << >>).cpos,
                            ![t].pending = {"cbuf", "cpos"}]
        /\ UNCHANGED <<files, l, batch, last, acked, hist, mu, rag>>

\* s.cbuf = ebuf and s.cpos = cpos, one of them becoming visible
RaceStore ==
    \E t \in RaceReaders, field \in {"cbuf", "cpos"} :
        /\ pc[t].at = "store"
        /\ field \in pc[t].pending
        /\ l' = IF field = "cbuf" THEN [l EXCEPT !.segments[1].cbuf = pc[t].ebuf]
                ELSE [l EXCEPT !.segments[1].cpos = pc[t].cpos]
        /\ pc' = [pc EXCEPT ![t].pending = @ \ {field},
                            ![t].at = IF pc[t].pending = {field} THEN "bounds" ELSE "store"]
        /\ UNCHANGED <<files, batch, last, acked, hist, mu, rag>>

\* if int(index) >= len(s.cpos) { return nil, ErrEOF }
RaceBounds ==
    \E t \in RaceReaders :
        /\ pc[t].at = "bounds"
        /\ pc' = IF int(pc[t].index) >= Len(l.segments[1].cpos)
                 THEN [pc EXCEPT ![t].at = "unlock", ![t].err = "ErrEOF"]
                 ELSE [pc EXCEPT ![t].at = "span"]
        /\ UNCHANGED <<files, l, batch, last, acked, hist, mu, rag>>

\* cpos := s.cpos[index]
RaceSpan ==
    \E t \in RaceReaders :
        /\ pc[t].at = "span"
        /\ pc' = IF pc[t].index >= Len(l.segments[1].cpos)
                 THEN [pc EXCEPT ![t].at = "panic", ![t].err = "panic"]
                 ELSE [pc EXCEPT ![t].at = "slice",
                                 ![t].span = l.segments[1].cpos[pc[t].index + 1]]
        /\ UNCHANGED <<files, l, batch, last, acked, hist, mu, rag>>

\* edata := s.cbuf[cpos.pos:cpos.end], which panics past the capacity of
\* s.cbuf, and the rest of Read
RaceSlice ==
    \E t \in RaceReaders :
        /\ pc[t].at = "slice"
        /\ pc' = IF pc[t].span.end > Len(l.segments[1].cbuf)
                 THEN [pc EXCEPT ![t].at = "panic", ![t].err = "panic"]
                 ELSE [pc EXCEPT
                         ![t].at = "unlock",
                         ![t].err = decode(Ctx(l, files, EmptyBatch),
                                       SubSeq(l.segments[1].cbuf, pc[t].span.pos + 1, pc[t].span.end),
                                       Uvarint(SubSeq(l.segments[1].cbuf, pc[t].span.pos + 1,
                                                      pc[t].span.end))).err,
                         ![t].out = decode(Ctx(l, files, EmptyBatch),
                                       SubSeq(l.segments[1].cbuf, pc[t].span.pos + 1, pc[t].span.end),
                                       Uvarint(SubSeq(l.segments[1].cbuf, pc[t].span.pos + 1,
                                                      pc[t].span.end))).out]
        /\ UNCHANGED <<files, l, batch, last, acked, hist, mu, rag>>

\* the deferred l.mu.RUnlock()
RaceRUnlock ==
    \E t \in RaceReaders :
        /\ pc[t].at = "unlock"
        /\ mu' = [mu EXCEPT !.readers = @ \ {t}]
        /\ pc' = [pc EXCEPT ![t].at = "done"]
        /\ UNCHANGED <<files, l, batch, last, acked, hist, rag>>

NextRace ==
    \/ RaceCall
    \/ RaceRLock
    \/ RaceLoadSegment
    \/ RaceReadFile
    \/ RaceStore
    \/ RaceBounds
    \/ RaceSpan
    \/ RaceSlice
    \/ RaceRUnlock

SpecRace == InitRace /\ [][NextRace]_vars

----------------------------------------------------------------------------
(* A WriteBatch taken statement by statement, with Reads by other          *)
(* goroutines: the writer holds l.mu from Lock to the deferred Unlock and  *)
(* in between appends each entry to the tail's cache (lines 276 and 277),  *)
(* rotates when the cache has reached SegmentSize, writes what the file    *)
(* lacks, syncs and clears the batch. A Read runs its body in one step     *)
(* under RLock. The locals of writeBatch are kept in the writer's context. *)

MaxBatches == 2

BatchWriter == 1

BatchReaders == {2, 3}

\* the batches the writer stages: one entry, or two that fill a segment
OneEntryBatch == BatchWriteTo(EmptyBatch, <<1>>)

\* the context of the writer on the log and the files as they are now
Now(t) == [pc[t].c EXCEPT !.l = l, !.files = files]

\* the writer has run a statement to context c and goes to place
Stepped(t, c, place) ==
    /\ l' = c.l
    /\ files' = c.files
    /\ pc' = [pc EXCEPT ![t].c = c, ![t].at = place]

InitSteps ==
    /\ files = OpenCall(<< >>, DefaultOptions.NoSync, NoFault).files
    /\ l = OpenCall(<< >>, DefaultOptions.NoSync, NoFault).l
    /\ batch = EmptyBatch
    /\ last = Event("Open", 0)
    /\ acked = << >>
    /\ hist = [NoHistory EXCEPT !.opens = 1]
    /\ mu = Unlocked
    /\ pc = [t \in {BatchWriter} \cup BatchReaders |->
                [op |-> "none", at |-> "idle", c |-> Ctx(NoLog, << >>, EmptyBatch),
                 i |-> 0, segment |-> 0, index |-> 0, out |-> << >>, err |-> "nil"]]
    /\ rag = NoRag

\* the writer calls WriteBatch with a batch it has staged
StepCallWriteBatch ==
    /\ pc[BatchWriter].at \in {"idle", "done"}
    /\ hist.calls < MaxBatches
    /\ \E b \in {OneEntryBatch, StagedBatch} :
          /\ batch' = b
          /\ pc' = [pc EXCEPT ![BatchWriter].op = "WriteBatch",
                              ![BatchWriter].at = "lock",
                              ![BatchWriter].c = Ctx(l, files, b),
                              ![BatchWriter].i = 1]
    /\ hist' = [hist EXCEPT !.calls = @ + 1, !.batched = TRUE]
    /\ UNCHANGED <<files, l, last, acked, mu, rag>>

\* l.mu.Lock(), first half
StepLock ==
    /\ pc[BatchWriter].at = "lock"
    /\ CanLock(mu)
    /\ mu' = [mu EXCEPT !.w = BatchWriter]
    /\ pc' = [pc EXCEPT ![BatchWriter].at = "wait"]
    /\ UNCHANGED <<files, l, batch, last, acked, hist, rag>>

\* l.mu.Lock(), second half: the readers have left
StepLocked ==
    /\ pc[BatchWriter].at = "wait"
    /\ Drained(mu)
    /\ mu' = [mu EXCEPT !.held = TRUE]
    /\ pc' = [pc EXCEPT ![BatchWriter].at = "enter"]
    /\ UNCHANGED <<files, l, batch, last, acked, hist, rag>>

\* WriteBatch up to the loop of writeBatch: the tail, with room made
StepEnter ==
    /\ pc[BatchWriter].at = "enter"
    /\ Stepped(BatchWriter, enter(makeRoom(Now(BatchWriter), NoFault)), "entry")
    /\ UNCHANGED <<batch, last, acked, hist, mu, rag>>

\* s.cbuf, cpos = l.appendEntry(s.cbuf, bytes); s.cpos = append(s.cpos, cpos)
StepStage ==
    /\ pc[BatchWriter].at = "entry"
    /\ Stepped(BatchWriter, stage(Now(BatchWriter), pc[BatchWriter].i), "staged")
    /\ UNCHANGED <<batch, last, acked, hist, mu, rag>>

\* the rest of the turn of the loop: the rotation when the cache is full
StepStaged ==
    /\ pc[BatchWriter].at = "staged"
    /\ l' = staged(Now(BatchWriter), NoFault).l
    /\ files' = staged(Now(BatchWriter), NoFault).files
    /\ pc' = [pc EXCEPT ![BatchWriter].c = staged(Now(BatchWriter), NoFault),
                        ![BatchWriter].i = @ + 1,
                        ![BatchWriter].at =
                            IF pc[BatchWriter].i >= Len(pc[BatchWriter].c.b.entries)
                            THEN "flush" ELSE "entry"]
    /\ UNCHANGED <<batch, last, acked, hist, mu, rag>>

\* l.sfile.Write(s.cbuf[mark:])
StepFlush ==
    /\ pc[BatchWriter].at = "flush"
    /\ Stepped(BatchWriter, flush(Now(BatchWriter), NoFault), "commit")
    /\ UNCHANGED <<batch, last, acked, hist, mu, rag>>

\* l.sfile.Sync()
StepCommit ==
    /\ pc[BatchWriter].at = "commit"
    /\ Stepped(BatchWriter, commit(Now(BatchWriter), NoFault), "clear")
    /\ UNCHANGED <<batch, last, acked, hist, mu, rag>>

\* b.Clear(); return nil
StepClear ==
    /\ pc[BatchWriter].at = "clear"
    /\ batch' = BatchClear(batch)
    /\ acked' = acked \o BatchPayloads(batch.entries, batch.data, 1)
    /\ pc' = [pc EXCEPT ![BatchWriter].c.b = BatchClear(batch),
                        ![BatchWriter].at = "unlock"]
    /\ UNCHANGED <<files, l, last, hist, mu, rag>>

\* the deferred l.mu.Unlock()
StepUnlock ==
    /\ pc[BatchWriter].at = "unlock"
    /\ mu' = [mu EXCEPT !.w = 0, !.held = FALSE]
    /\ pc' = [pc EXCEPT ![BatchWriter].at = "done"]
    /\ UNCHANGED <<files, l, batch, last, acked, hist, rag>>

\* a goroutine calls Read(segment, index)
StepCallRead ==
    \E t \in BatchReaders, segment \in 1..2, index \in 0..1 :
        /\ pc[t].at \in {"idle", "done"}
        /\ pc' = [pc EXCEPT ![t].op = "Read", ![t].at = "lock",
                            ![t].segment = segment, ![t].index = index,
                            ![t].out = << >>, ![t].err = "nil"]
        /\ UNCHANGED <<files, l, batch, last, acked, hist, mu, rag>>

\* l.mu.RLock()
StepRLock ==
    \E t \in BatchReaders :
        /\ pc[t].at = "lock"
        /\ CanRLock(mu)
        /\ mu' = [mu EXCEPT !.readers = @ \cup {t}]
        /\ pc' = [pc EXCEPT ![t].at = "body"]
        /\ UNCHANGED <<files, l, batch, last, acked, hist, rag>>

\* the body of Read
StepRead ==
    \E t \in BatchReaders :
        /\ pc[t].at = "body"
        /\ l' = ReadCall(l, files, pc[t].segment, pc[t].index, NoFault).l
        /\ pc' = [pc EXCEPT
                    ![t].out = ReadCall(l, files, pc[t].segment, pc[t].index, NoFault).out,
                    ![t].err = ReadCall(l, files, pc[t].segment, pc[t].index, NoFault).err,
                    ![t].at = "unlock"]
        /\ UNCHANGED <<files, batch, last, acked, hist, mu, rag>>

\* the deferred l.mu.RUnlock()
StepRUnlock ==
    \E t \in BatchReaders :
        /\ pc[t].at = "unlock"
        /\ mu' = [mu EXCEPT !.readers = @ \ {t}]
        /\ pc' = [pc EXCEPT ![t].at = "done"]
        /\ UNCHANGED <<files, l, batch, last, acked, hist, rag>>

NextSteps ==
    \/ StepCallWriteBatch
    \/ StepLock
    \/ StepLocked
    \/ StepEnter
    \/ StepStage
    \/ StepStaged
    \/ StepFlush
    \/ StepCommit
    \/ StepClear
    \/ StepUnlock
    \/ StepCallRead
    \/ StepRLock
    \/ StepRead
    \/ StepRUnlock

SpecSteps == InitSteps /\ [][NextSteps]_vars

----------------------------------------------------------------------------
(* Claims *)

\* C1: the records written with Write to a log opened on an empty
\* directory are, after Close and a fresh Open of the same path, read back
\* segment by segment from index 0 with the same payloads in the order written.
C1_ReopenReadsBack ==
    (Usable /\ Plain /\ hist.opens >= 2) =>
        (Scan(l, files).err = "nil" /\ Scan(l, files).recs = acked)

C1_Witness ==
    /\ Usable /\ Plain /\ hist.opens >= 2 /\ last.op = "Open"
    /\ Len(acked) >= 2 /\ acked[1] # acked[2]
    /\ Len(l.segments) >= 2

\* C2: on the instance that wrote them, after any interleaving of Writes
\* and rotations, the scan of segments 1..Segments() yields every record
\* written once and in write order (so the last one yielded is the last one
\* written), and a rotation leaves more than one segment.
C2_ScanYieldsWrites ==
    (Usable /\ Plain /\ hist.opens = 1) =>
        /\ Scan(l, files).err = "nil"
        /\ Scan(l, files).recs = acked
        /\ (last.op = "cycle" /\ last.err = "nil") => SegmentsCall(l) > 1
        /\ Len(files) > 1 => SegmentsCall(l) > 1

C2_Witness ==
    /\ Usable /\ Plain /\ hist.opens = 1
    /\ last.op = "Write" /\ last.err = "nil"
    /\ Len(acked) >= 2
    /\ Len(l.segments) >= 2
    /\ Len(l.segments[1].cpos) > 0
    /\ Len(l.segments[Len(l.segments)].cpos) > 0

\* C3: with NoSync unset, every record of a Write or WriteBatch that
\* returned nil is in a synced segment file, so a crash at any later point
\* followed by Open shows all acknowledged records.
C3_AckedSurviveCrash ==
    (last.op = "Open" /\ hist.crashed /\ ~hist.nosync /\ hist.faults = 0) =>
        (last.err = "nil" /\ IsSubseq(acked, Scan(l, files).recs))

\* the tail file ends where one of its records ends
AtBoundary ==
    \E k \in 0..Len(acked) : files[Len(files)].content = Frame(SubSeq(acked, 1, k))

\* C4: when the tail segment file is cut at a byte that is no record
\* boundary, Open returns an error and no Log, the error of the framing
\* unless an I/O failure came first.
C4_CutTailRefused ==
    ~AtBoundary =>
        /\ l = NoLog
        /\ last.op = "Open" =>
             /\ last.err # "nil"
             /\ ~last.hit => last.err \in {"ErrCorruptSize", "ErrCorruptData"}

\* the cut fell inside the two-byte length prefix of the long payload
C4_Witness ==
    /\ last.op = "Open" /\ ~AtBoundary
    /\ last.err = "ErrCorruptSize"
    /\ Len(files[Len(files)].content) > 0

\* the segment at position i is in the cache: the tail always is, another
\* segment once it has spans
Loaded(lg, i) == i = Len(lg.segments) \/ Len(lg.segments[i].cpos) > 0

FileSpans(fs, i) == ParseEntries(fs[i].content, 0, << >>)

\* the segment at position i holds a definite number of records
Countable(lg, fs, i) == Loaded(lg, i) \/ FileSpans(fs, i).err = "nil"

RecordCount(lg, fs, i) ==
    IF Loaded(lg, i) THEN Len(lg.segments[i].cpos) ELSE Len(FileSpans(fs, i).cpos)

Untouched(c, lg, fs) == c.err = "ErrEOF" /\ c.l = lg /\ c.files = fs

\* C5: Read(s, i) with i at or past the record count of segment s returns
\* ErrEOF and leaves the segment list, every segment's cached buffer and
\* spans, and the files unchanged.
C5_ReadPastEndChangesNothing ==
    Usable =>
        \A i \in 1..Len(l.segments) :
            Countable(l, files, i) =>
                \A index \in {RecordCount(l, files, i), RecordCount(l, files, i) + 1, Huge} :
                    Untouched(ReadCall(l, files, l.segments[i].index, index, NoFault),
                              l, files)

LogCalls == {"Write", "WriteBatch", "Read", "Sync", "Segments", "Close"}

\* C6 as claimed: after Close has returned nil, Write, WriteBatch, Read,
\* Sync and Segments fail with an error and change no state, and a second
\* Close returns an error.
C6_ClosedLogFailsAll ==
    [][(Live /\ l.closed /\ last' # last /\ last'.op \in LogCalls) =>
          (last'.err # "nil" /\ l' = l /\ files' = files)]_vars

\* C6: after Close has returned nil, Write, WriteBatch, Read and Sync fail
\* with an error, a second Close returns an error, and none of them changes
\* the log or the files; Segments has no error to return and still returns
\* the number of segments.
C6_ClosedLogRefuses ==
    [][(Live /\ l.closed /\ last' # last /\ last'.op \in LogCalls) =>
          /\ l' = l
          /\ files' = files
          /\ IF last'.op = "Segments"
             THEN last'.err = "nil" /\ last'.n = Len(l.segments)
             ELSE last'.err = "ErrLogClosed"]_vars

\* a second Close of a closed log returned its error
C6_Witness ==
    /\ Live /\ l.closed
    /\ last.op = "Close" /\ last.err = "ErrLogClosed"

SameOutcome(a, b) ==
    a.err = b.err /\ a.l.segments = b.l.segments /\ a.files = b.files

\* C7: for every payload d, the empty one included, Write(d) and WriteBatch
\* of a batch holding the single entry d leave the same segments, records
\* and file bytes and return the same result.
C7_WriteIsOneEntryBatch ==
    Usable =>
        \A d \in Payloads :
            SameOutcome(WriteCall(l, files, d, NoFault),
                        WriteBatchCall(l, files, BatchWriteTo(EmptyBatch, d), NoFault))

\* C8: a WriteBatch that returns nil on a batch of m entries has appended
\* m records, in batch order, after the records written before.
C8_BatchAppended ==
    (Usable /\ hist.faults = 0 /\ last.op = "WriteBatch" /\ last.err = "nil") =>
        Scan(l, files).recs = acked

\* C9: after a Write or WriteBatch that returned an I/O error, and after
\* the writes that follow it, the records in the cache are the records in
\* the segment files.
C9_CacheMatchesFiles ==
    (Usable /\ hist.fops \subseteq {"Write", "WriteBatch"}
            /\ last.op \in {"Write", "WriteBatch"}) =>
        \A i \in 1..Len(l.segments) :
            Loaded(l, i) => l.segments[i].cbuf = files[l.segments[i].index].content

\* C10: an I/O error during Write or WriteBatch, rotation included, does
\* not flag the log corrupt and leaves it usable: a following Write that
\* meets no I/O failure succeeds.
C10_WriteAfterFaultSucceeds ==
    (Live /\ ~l.closed /\ hist.fops \subseteq {"Write", "WriteBatch"}
          /\ last.op = "Write" /\ ~last.hit) =>
        (last.err = "nil" /\ ~l.corrupt)

\* the errors of a framing that does not parse
FramingErrors == {"ErrCorruptSize", "ErrCorruptData"}

\* C11: once framing corruption was discovered while a Read loaded a
\* segment, the instance is flagged corrupt and a following Read, Write,
\* WriteBatch or Sync on it fails.
C11_CorruptionIsFatal ==
    (Live /\ last.op = "Read" /\ last.err \in FramingErrors) =>
        /\ l.corrupt
        /\ \A d \in Payloads : WriteCall(l, files, d, NoFault).err # "nil"
        /\ SyncCall(l, files, NoFault).err # "nil"
        /\ \A s \in 1..Len(l.segments) :
              ReadCall(l, files, s, 0, NoFault).err \notin {"nil", "ErrEOF"}

\* goroutine t is inside a call of one of ops: it has the lock and has not
\* released it yet
Inside(t, ops) == At(t, ops, {"body", "unlock"})

\* C12: no writer (Write, WriteBatch with its rotation, Sync, Close) runs
\* at the same time as another writer or as a Read.
C12_WritersExclusive ==
    \A t \in Threads, u \in Threads :
        (t # u /\ Inside(t, Writers)) => ~Inside(u, Writers \cup Readers)

\* two Reads run at the same time, and a writer waits for them
C12_Witness ==
    \E t \in Threads, u \in Threads, w \in Threads :
        /\ t # u
        /\ Inside(t, Readers) /\ Inside(u, Readers)
        /\ At(w, Writers, {"wait"})

\* C13: the segment list of a log is never empty, the i-th segment has
\* index i, its file is named by the index printed as 20 decimal digits
\* (which load reads back as that index), and the directory holds no file
\* but the files of the segments.
C13_SegmentsNumbered ==
    Live =>
        /\ SegmentsCall(l) >= 1
        /\ \A i \in 1..Len(l.segments) :
              /\ l.segments[i].index = i
              /\ Len(segmentName(l.segments[i].index)) = NameWidth
              /\ ParseUint(segmentName(l.segments[i].index)) = l.segments[i].index
        /\ DOMAIN files = {l.segments[i].index : i \in 1..Len(l.segments)}

\* a reopened log of three segments
C13_Witness ==
    /\ Live /\ ~l.closed /\ hist.opens = 2
    /\ Len(l.segments) >= 3
    /\ segmentName(l.segments[3].index) =
          <<0, 0, 0, 0, 0, 0, 0, 0, 0, 0, 0, 0, 0, 0, 0, 0, 0, 0, 0, 3>>

\* the cache of the segment at position i is as it was, or the segment was
\* not loaded and now holds the parse of its file
KeptOrLoaded(i) ==
    \/ l'.segments[i] = l.segments[i]
    \/ /\ ~Loaded(l, i)
       /\ l'.segments[i].index = l.segments[i].index
       /\ l'.segments[i].cbuf = files[l.segments[i].index].content
       /\ l'.segments[i].cpos = FileSpans(files, l.segments[i].index).cpos

\* C14 as claimed: the open file handle of a log is the one of the last
\* segment of the list, and no step changes the file bytes or the cached
\* records of a segment that is not the tail.
C14_NonTailNeverChanges ==
    [][/\ (Live' /\ ~l'.closed /\ l'.sfile.st = "open") =>
              l'.sfile.seg = l'.segments[Len(l'.segments)].index
       /\ \A i \in 1..(Len(files) - 1) : files'[i] = files[i]
       /\ (Live /\ Live' /\ hist'.opens = hist.opens) =>
              \A i \in 1..(Len(l.segments) - 1) : l'.segments[i] = l.segments[i]]_vars

\* C14: the open file handle of a log is the one of the last segment of
\* the list; no step changes the bytes of a file that is not the last, and
\* no call on a log changes the cached records of a segment that is not its
\* tail, except that a Read loads them from the file when the instance had
\* not loaded them.
C14_OnlyTailWritable ==
    [][/\ (Live' /\ ~l'.closed /\ l'.sfile.st = "open") =>
              l'.sfile.seg = l'.segments[Len(l'.segments)].index
       /\ \A i \in 1..(Len(files) - 1) : files'[i] = files[i]
       /\ (Live /\ Live' /\ hist'.opens = hist.opens) =>
              \A i \in 1..(Len(l.segments) - 1) : KeptOrLoaded(i)]_vars

\* a Read has loaded the first segment of a reopened log of two segments
\* from its file
C14_Witness ==
    /\ Live /\ ~l.closed /\ hist.opens = 2
    /\ Len(l.segments) = 2
    /\ last.op = "Read" /\ last.err = "nil" /\ last.n = 1
    /\ l.sfile = [seg |-> 2, st |-> "open"]
    /\ l.segments[1].cbuf = files[1].content
    /\ Len(l.segments[1].cpos) > 0

\* the step is a call of WriteBatch (Batch.Write is the other call that
\* leaves last alone, and it adds an entry)
WriteBatchStep ==
    /\ last'.op = "WriteBatch"
    /\ hist'.calls = hist.calls + 1
    /\ Len(batch'.entries) <= Len(batch.entries)

Staged == BatchPayloads(batch.entries, batch.data, 1)

\* with entry k of the staged batch the cache of the tail reaches the limit
Pushes(k) ==
    Len(Frame(SubSeq(Staged, 1, k))) + Len(l.segments[Len(l.segments)].cbuf)
        >= l.opts.SegmentSize

\* entry k is the first to do so
FirstPush(k) ==
    /\ k \in 1..Len(Staged)
    /\ Pushes(k)
    /\ \A j \in 1..(k - 1) : ~Pushes(j)

\* what the rotation at entry k has done when the call returns: entries
\* 1..k are in the file of the old tail, which is synced; the segment after
\* it exists, numbered one more; the handle is the one of the last
\* segment; the old tail got no other entry and the scan yields the records
\* of before followed by the whole batch
Rotated(k) ==
    /\ files'[Len(l.segments)].content =
          files[Len(l.segments)].content \o Frame(SubSeq(Staged, 1, k))
    /\ files'[Len(l.segments)].synced = files'[Len(l.segments)].content
    /\ Len(l'.segments) > Len(l.segments)
    /\ l'.segments[Len(l.segments) + 1].index = l.segments[Len(l.segments)].index + 1
    /\ l'.sfile = [seg |-> l'.segments[Len(l'.segments)].index, st |-> "open"]
    /\ Len(l'.segments[Len(l.segments)].cpos) = Len(l.segments[Len(l.segments)].cpos) + k
    /\ Scan(l', files').recs = Scan(l, files).recs \o Staged

\* C15: when an entry of a WriteBatch pushes the cache of the tail to the
\* limit, the bytes appended so far are written to the old tail file, that
\* file is synced and closed, the segment with the next index is created
\* and becomes the tail, and the entries that remain are appended after
\* it; no record is split.
C15_RotationInOrder ==
    [][(Usable /\ hist.faults = 0 /\ WriteBatchStep /\ last'.err = "nil" /\ ~last'.hit) =>
          \A k \in 1..Len(Staged) : FirstPush(k) => Rotated(k)]_vars

\* C16: whenever Write or WriteBatch returns nil, the cache of the tail is
\* below SegmentSize.
C16_TailBelowLimit ==
    (Usable /\ last.op \in {"Write", "WriteBatch"} /\ last.err = "nil") =>
        Len(l.segments[Len(l.segments)].cbuf) < l.opts.SegmentSize

\* C17: deserializeDoc of serializeDoc(d) succeeds and returns the
\* embedding, the content and the key-to-value mapping of d.
C17_CodecRoundTrip ==
    (rag # NoRag /\ rag.at = "whole" /\ rag.out # NoResult) =>
        /\ rag.out.err = "nil"
        /\ rag.out.doc.embedding = rag.doc.embedding
        /\ rag.out.doc.content = rag.doc.content
        /\ rag.out.doc.metadata.kv = rag.doc.metadata.kv

\* a Document with two embedding values, a content and two keys, one of
\* them empty, was decoded from its encoding
C17_Witness ==
    /\ rag # NoRag /\ rag.at = "whole" /\ rag.out # NoResult
    /\ Len(rag.doc.embedding) = 2
    /\ Len(rag.doc.content) = 2
    /\ Cardinality(DOMAIN rag.doc.metadata.kv) = 2
    /\ rag.out.doc.metadata.kv[<< >>] = <<98, 99>>

\* C18: deserializeDoc of a proper prefix of an encoding returns an error,
\* and a Document returned with an error has no populated field.
C18_DecodingIsStrict ==
    (rag # NoRag /\ rag.out # NoResult) =>
        /\ rag.at = "cut" => rag.out.err # "nil"
        /\ rag.out.err # "nil" =>
              /\ rag.out.doc.embedding = << >>
              /\ rag.out.doc.content = << >>
              /\ rag.out.doc.metadata.kv = NoKeys

\* C19: after any sequence of appendToSelection calls with k >= 0, each fed
\* the result of the call before it, the selection has at most k entries and
\* its scores never increase from one entry to the next.
C19_SelectionBounded ==
    rag.calls > 0 =>
        /\ Len(rag.selection) <= rag.k
        /\ \A i \in 1..(Len(rag.selection) - 1) :
              rag.selection[i].mmr >= rag.selection[i + 1].mmr

C19_Witness ==
    /\ rag.calls >= 3
    /\ rag.k = 2
    /\ Len(rag.selection) = 2
    /\ rag.selection[1].mmr = 2
    /\ rag.selection[2].mmr = 1

\* C20: when queryDigest has been called once per digest path, each call
\* handed the list the call before it returned, an entry returned for an
\* earlier digest is in the final list unless the final list holds k entries
\* that score at least as high.
C20_OneTopKOverAllDigests ==
    Len(rag.returned) = Len(rag.DigestPaths) =>
        \A j \in 1..(Len(rag.returned) - 1) :
            \A i \in 1..Len(rag.returned[j]) :
                \/ \E n \in 1..Len(rag.res) : rag.res[n].doc = rag.returned[j][i].doc
                \/ /\ Len(rag.res) = rag.K
                   /\ \A n \in 1..Len(rag.res) : rag.res[n].mmr >= rag.returned[j][i].mmr

\* the largest product of e with the embedding of an entry of cand
Redundancy(e, cand) ==
    CHOOSE m \in {dotProduct(e, cand[i].doc.embedding) : i \in 1..Len(cand)} :
        \A i \in 1..Len(cand) : dotProduct(e, cand[i].doc.embedding) <= m

\* C21: the score of a record is lambda * dot(query, embedding) minus
\* (1 - lambda) * redundancy, the redundancy being the largest product of the
\* embedding with an already selected one, whatever the signs of the products
\* (scores are kept multiplied by LambdaScale).
C21_ScoreFormula ==
    (rag.op = "mmr" /\ Len(rag.cand) > 0) =>
        rag.mmrA = rag.Lambda * dotProduct(rag.query, rag.a)
                     - (LambdaScale - rag.Lambda) * Redundancy(rag.a, rag.cand)

\* C22: of two records with the same product with the query, one equal to an
\* already selected embedding of positive norm and one orthogonal to every
\* selected embedding, the orthogonal one scores strictly higher when
\* lambda < 1.
C22_OrthogonalScoresHigher ==
    (/\ rag.op = "mmr"
     /\ rag.Lambda < LambdaScale
     /\ dotProduct(rag.query, rag.a) = dotProduct(rag.query, rag.b)
     /\ \E i \in 1..Len(rag.cand) : rag.cand[i].doc.embedding = rag.a
     /\ dotProduct(rag.a, rag.a) > 0
     /\ \A i \in 1..Len(rag.cand) : dotProduct(rag.b, rag.cand[i].doc.embedding) = 0)
        => rag.mmrB > rag.mmrA

C22_Witness ==
    /\ rag.op = "mmr"
    /\ rag.Lambda = 1
    /\ Len(rag.cand) = 2
    /\ rag.cand[2].doc.embedding = rag.a
    /\ rag.a = <<1, -1>>
    /\ rag.b = <<1, 1>>
    /\ dotProduct(rag.b, rag.cand[1].doc.embedding) = 0
    /\ dotProduct(rag.query, rag.a) = 1
    /\ dotProduct(rag.query, rag.b) = 1
    /\ rag.mmrB > rag.mmrA

\* the sum of the products of the first n components
RECURSIVE SumOfProducts(_, _, _)
SumOfProducts(a, b, n) ==
    IF n = 0 THEN 0 ELSE SumOfProducts(a, b, n - 1) + a[n] * b[n]

\* C24: dotProduct of two vectors of the same length is the sum of the
\* products of their components: 32 for [1,2,3] and [4,5,6], 0 for empty
\* vectors.
C24_DotIsSumOfProducts ==
    rag.op = "dot" =>
        /\ rag.dot = SumOfProducts(rag.a, rag.b, Len(rag.a))
        /\ (rag.a = <<1, 2, 3>> /\ rag.b = <<4, 5, 6>>) => rag.dot = 32
        /\ rag.a = << >> => rag.dot = 0

C24_Witness ==
    /\ rag.op = "dot"
    /\ rag.a = <<1, 2, 3>>
    /\ rag.b = <<4, 5, 6>>
    /\ rag.dot = 32

\* every segment of the directory parses and every record decodes
GoodDigest ==
    \A s \in 1..Len(rag.digest) :
        /\ ~rag.digest[s].cut
        /\ \A i \in 1..Len(rag.digest[s].recs) : rag.digest[s].recs[i] # BadPayload

\* the records of segments s.. of the digest, each with its place
RECURSIVE RecordsFrom(_, _)
RecordsFrom(digest, s) ==
    IF s > Len(digest) THEN << >>
    ELSE [i \in 1..Len(digest[s].recs) |->
             [s |-> s, idx |-> i - 1, data |-> digest[s].recs[i]]]
         \o RecordsFrom(digest, s + 1)

ScanDone ==
    /\ rag.at = "done" => ~(l = NoLog) /\ l.closed
    /\ (rag.at = "done" /\ rag.err # "nil") => rag.out = << >>
    /\ (rag.at = "done" /\ GoodDigest) =>
          /\ rag.err = "nil"
          /\ rag.reads = RecordsFrom(rag.digest, 1)

\* C23: on a digest whose segments parse and whose records decode,
\* queryDigest terminates having read every record of every segment once, in
\* order; any error other than ErrEOF is returned with an empty list; and the
\* log is closed when queryDigest returns.
C23_ScanTerminates ==
    /\ []ScanDone
    /\ (rag.at = "start" /\ GoodDigest) ~> (rag.at = "done")

C23_Witness ==
    /\ rag.at = "done"
    /\ GoodDigest
    /\ Len(rag.digest) = 2
    /\ Len(rag.digest[1].recs) = 2
    /\ Len(rag.digest[2].recs) = 1
    /\ Len(rag.reads) = 3
    /\ l.closed

\* C25: the Log and the codec never abort the process: every call returns a
\* value or an error; here deserializeDoc, on every input, returns without a
\* panic.
C25_NoPanic ==
    (rag # NoRag /\ rag.out # NoResult) => rag.out.err # "panic"

IsPrefix(a, b) == Len(a) <= Len(b) /\ SubSeq(b, 1, Len(a)) = a

\* the payload of the record framed in bytes
FramedPayload(bytes) ==
    SubSeq(bytes, Uvarint(bytes).n + 1, Uvarint(bytes).n + Uvarint(bytes).val)

\* the records of a segment file that parses
FileRecords(fs, i) ==
    [j \in 1..Len(FileSpans(fs, i).cpos) |->
        FramedPayload(SubSeq(fs[i].content, FileSpans(fs, i).cpos[j].pos + 1,
                             FileSpans(fs, i).cpos[j].end))]

Reading(lg) == lg # NoLog /\ ~lg.closed

SegmentCount(lg, fs) == IF Reading(lg) THEN Len(lg.segments) ELSE Len(fs)

\* the records of segment i: those Read returns on an open log that holds
\* the segment in its cache, else those of the segment file
SegmentRecords(lg, fs, i) ==
    IF Reading(lg) /\ Loaded(lg, i)
    THEN [j \in 1..Len(lg.segments[i].cpos) |->
             ReadCall(lg, fs, lg.segments[i].index, j - 1, NoFault).out]
    ELSE FileRecords(fs, i)

HasRecords(lg, fs, i) == (Reading(lg) /\ Loaded(lg, i)) \/ FileSpans(fs, i).err = "nil"

\* C26: records are append-only: at every step of Open, Write, WriteBatch,
\* rotation, Read, Sync and Close every segment is still there and its
\* records before the step are a prefix of its records after it.
C26_AppendOnly ==
    [][\A i \in 1..SegmentCount(l, files) :
          /\ i <= SegmentCount(l', files')
          /\ (HasRecords(l, files, i) /\ HasRecords(l', files', i)) =>
                IsPrefix(SegmentRecords(l, files, i), SegmentRecords(l', files', i))]_vars

\* the spans cover the buffer of n bytes back to back, from offset 0
Contiguous(cpos, n) ==
    /\ Len(cpos) = 0 => n = 0
    /\ Len(cpos) > 0 => (cpos[1].pos = 0 /\ cpos[Len(cpos)].end = n)
    /\ \A j \in 1..(Len(cpos) - 1) : cpos[j + 1].pos = cpos[j].end

IOErrors == {"EIO", "ErrFile"}

\* C27: after every operation that completes without I/O error, the cached
\* buffer of each loaded segment is the bytes of its file, its spans are
\* contiguous from 0 to the length of the buffer, and the parse of the file
\* from offset 0 yields these spans.
C27_CacheIsFileParse ==
    (Live /\ ~l.closed /\ last.err \notin IOErrors) =>
        \A i \in 1..Len(l.segments) :
            Loaded(l, i) =>
                /\ l.segments[i].cbuf = files[l.segments[i].index].content
                /\ Contiguous(l.segments[i].cpos, Len(l.segments[i].cbuf))
                /\ FileSpans(files, l.segments[i].index).err = "nil"
                /\ FileSpans(files, l.segments[i].index).cpos = l.segments[i].cpos

\* C28: Read(s, i) with s a segment of the log and i below its record count
\* returns the payload of record i of segment s, the length prefix removed;
\* the index counts from 0 in every segment.
C28_ReadIsLocal ==
    (Usable /\ hist.faults = 0) =>
        \A i \in 1..Len(l.segments) :
            \A j \in 0..(RecordCount(l, files, i) - 1) :
                /\ ReadCall(l, files, l.segments[i].index, j, NoFault).err = "nil"
                /\ ReadCall(l, files, l.segments[i].index, j, NoFault).out
                      = FileRecords(files, l.segments[i].index)[j + 1]

C28_Witness ==
    /\ Usable /\ hist.faults = 0
    /\ last.op = "Read" /\ last.err = "nil" /\ last.n = 2
    /\ last.out = <<1>>
    /\ Len(l.segments) = 2
    /\ RecordCount(l, files, 1) = 2
    /\ FileRecords(files, 1)[1] = <<2, 3>>
    /\ FileRecords(files, 2) = << <<1>> >>

\* segment i as it would be in the cache had Open parsed it
EagerSegment(lg, fs, i) ==
    IF Loaded(lg, i) THEN lg.segments[i]
    ELSE [lg.segments[i] EXCEPT !.cbuf = fs[lg.segments[i].index].content,
                                !.cpos = FileSpans(fs, lg.segments[i].index).cpos]

\* the log had Open parsed every segment
Eager(lg, fs) ==
    [lg EXCEPT !.segments = [i \in 1..Len(lg.segments) |-> EagerSegment(lg, fs, i)]]

\* a Read of segment i at index gives what it gives on the eager log, loads
\* the segment when it was not loaded, and reads no file when the segment is
\* a loaded one with records
ReadsAsEager(c, e, lg, fs, i) ==
    /\ c.err = e.err
    /\ c.out = e.out
    /\ ~Loaded(lg, i) => c.l.segments[i] = EagerSegment(lg, fs, i)
    /\ Len(lg.segments[i].cpos) > 0 => (c.io = 0 /\ c.l = lg)

\* the calls that follow on the instance leave segment i in the cache
StaysLoaded(lg, fs, i) ==
    /\ \A d \in Payloads : WriteCall(lg, fs, d, NoFault).l.segments[i] = lg.segments[i]
    /\ WriteBatchCall(lg, fs, batch, NoFault).l.segments[i] = lg.segments[i]
    /\ cycle(Ctx(lg, fs, EmptyBatch), NoFault).l.segments[i] = lg.segments[i]
    /\ SyncCall(lg, fs, NoFault).l.segments[i] = lg.segments[i]
    /\ CloseCall(lg, fs, NoFault).l.segments[i] = lg.segments[i]

\* C29: the first Read of a segment that is not the tail parses it into
\* the cache; every Read returns what it would return had Open parsed all
\* the segments; and a segment with records, once parsed, stays in the cache
\* of the instance and is not read from its file again.
C29_LazyLoadTransparent ==
    (Usable /\ \A i \in 1..Len(l.segments) : Countable(l, files, i)) =>
        /\ \A i \in 1..Len(l.segments), index \in 0..MaxCalls :
              ReadsAsEager(ReadCall(l, files, l.segments[i].index, index, NoFault),
                           ReadCall(Eager(l, files), files, l.segments[i].index,
                                    index, NoFault),
                           l, files, i)
        /\ \A i \in 1..(Len(l.segments) - 1) :
              Len(l.segments[i].cpos) > 0 => StaysLoaded(l, files, i)

\* a Read has just loaded segment 1 of a reopened log and returned its
\* second record
C29_Witness ==
    /\ Usable /\ hist.opens >= 2
    /\ last.op = "Read" /\ last.err = "nil" /\ last.n = 1
    /\ Len(l.segments) >= 2
    /\ Len(l.segments[1].cpos) = 2
    /\ last.out = FileRecords(files, 1)[2]
    /\ FileRecords(files, 1)[1] # FileRecords(files, 1)[2]

\* the bytes of every file of the directory
FileBytes(fs) == [i \in 1..Len(fs) |-> fs[i].content]

\* C30: an Open that succeeds on a directory with no segment file creates
\* one empty segment file, of index 1, which is the tail; an Open on a
\* directory with segment files creates, truncates and modifies no file and
\* takes the segment of the highest index as the tail; and a Close that
\* follows an Open directly leaves the bytes of every file as they were.
C30_OpenFrame ==
    [][/\ (hist'.opens # hist.opens /\ Len(files) = 0 /\ last'.err = "nil") =>
             /\ files' = <<NewFile>>
             /\ Len(l'.segments) = 1
             /\ l'.segments[1].index = 1
             /\ l'.sfile = [seg |-> 1, st |-> "open"]
       /\ (hist'.opens # hist.opens /\ Len(files) > 0) =>
             /\ FileBytes(files') = FileBytes(files)
             /\ last'.err = "nil" =>
                   /\ Len(l'.segments) = Len(files)
                   /\ l'.segments[Len(l'.segments)].index = Len(files)
                   /\ l'.sfile = [seg |-> Len(files), st |-> "open"]
       /\ (last.op = "Open" /\ last.err = "nil" /\ last'.op = "Close") =>
             FileBytes(files') = FileBytes(files)]_vars

\* a log of two segments with records in both has been reopened
C30_Witness ==
    /\ Usable /\ hist.opens >= 2 /\ last.op = "Open" /\ last.err = "nil"
    /\ Len(files) = 2
    /\ Len(files[1].content) > 0
    /\ Len(files[2].content) > 0
    /\ l.sfile = [seg |-> 2, st |-> "open"]

\* the list handed to the call for digest path p
Prior(p) == IF p = 1 THEN << >> ELSE rag.returned[p - 1]

\* the score of record idx of digest path p in the call for p
ScoreOf(p, idx) ==
    mmrOf(rag.query, rag.DigestPaths[p][idx], Prior(p), rag.Lambda)

\* how many of the results of res, and of the records of digest path p,
\* score v or more
AtLeastIn(res, v) == Cardinality({n \in 1..Len(res) : res[n].mmr >= v})

AtLeastOf(p, v) ==
    Cardinality({idx \in 1..Len(rag.DigestPaths[p]) : ScoreOf(p, idx) >= v})

ScoresOf(p) == {ScoreOf(p, idx) : idx \in 1..Len(rag.DigestPaths[p])}

\* C31: the list a queryDigest call returns holds records of its digest
\* only, each once and with its score, k of them or all when the digest has
\* fewer; its scores never increase, and they are the k highest of the
\* digest: for every score v the list has as many entries of score v or more
\* as the digest has records of score v or more, up to k.
C31_TopKOfDigest ==
    \A p \in 1..Len(rag.returned) :
        LET res == rag.returned[p]
        IN  /\ Len(res) = Min(rag.K, Len(rag.DigestPaths[p]))
            /\ \A n \in 1..Len(res) :
                  /\ res[n].doc.content[1] = p
                  /\ res[n].doc.content[2] \in 1..Len(rag.DigestPaths[p])
                  /\ res[n].doc.embedding = rag.DigestPaths[p][res[n].doc.content[2]]
                  /\ res[n].mmr = ScoreOf(p, res[n].doc.content[2])
                  /\ \A m \in 1..Len(res) : res[m].doc = res[n].doc => m = n
            /\ \A n \in 1..(Len(res) - 1) : res[n].mmr >= res[n + 1].mmr
            /\ \A v \in ScoresOf(p) :
                  AtLeastIn(res, v) = Min(rag.K, AtLeastOf(p, v))

\* a digest of two records, the second scoring higher, queried with k = 1
C31_Witness ==
    /\ rag.K = 1
    /\ Len(rag.returned) >= 1
    /\ Len(rag.DigestPaths[1]) = 2
    /\ ScoreOf(1, 2) > ScoreOf(1, 1)
    /\ Len(rag.returned[1]) = 1
    /\ rag.returned[1][1].doc.content = <<1, 2>>

\* the redundancy of e against the list cand alone: its largest product with
\* an entry of cand when that is positive, 0 otherwise
RedundancyAgainst(e, cand) ==
    IF Len(cand) = 0 THEN 0 ELSE Max(0, Redundancy(e, cand))

\* the product of the query with the embedding of a result
Relevance(r) == dotProduct(rag.query, r.doc.embedding)

\* C32: the score of every result of a call is lambda * dot(query,
\* embedding) minus (1 - lambda) times its redundancy against the list the
\* caller passed in, whatever the scan has selected before it; when that list
\* is empty the score is lambda * dot(query, embedding), and for lambda > 0
\* the results are then the k most relevant records, most relevant first
\* (scores are kept multiplied by LambdaScale).
C32_RedundancyAgainstPriorOnly ==
    \A p \in 1..Len(rag.returned) :
        LET res == rag.returned[p]
        IN  /\ \A n \in 1..Len(res) :
                  res[n].mmr = rag.Lambda * Relevance(res[n])
                      - (LambdaScale - rag.Lambda)
                          * RedundancyAgainst(res[n].doc.embedding, Prior(p))
            /\ Len(Prior(p)) = 0 =>
                  /\ \A n \in 1..Len(res) : res[n].mmr = rag.Lambda * Relevance(res[n])
                  /\ rag.Lambda > 0 =>
                        /\ \A n \in 1..(Len(res) - 1) :
                              Relevance(res[n]) >= Relevance(res[n + 1])
                        /\ \A idx \in 1..Len(rag.DigestPaths[p]) :
                              \/ \E n \in 1..Len(res) : res[n].doc.content = <<p, idx>>
                              \/ \A n \in 1..Len(res) :
                                    Relevance(res[n]) >=
                                        dotProduct(rag.query, rag.DigestPaths[p][idx])

\* a call handed a result of the digest before it returns two records, the
\* second of which has a positive product with the first and none with the
\* prior result
C32_Witness ==
    /\ Len(rag.returned) = 2
    /\ rag.Lambda \in 1..(LambdaScale - 1)
    /\ Len(rag.returned[1]) = 1
    /\ Len(rag.returned[2]) = 2
    /\ dotProduct(rag.returned[2][1].doc.embedding, rag.returned[2][2].doc.embedding) > 0
    /\ dotProduct(rag.returned[2][2].doc.embedding, rag.returned[1][1].doc.embedding) = 0
    /\ Relevance(rag.returned[2][2]) > 0

\* the segment numbers past the tail that are tried: the next two and the
\* largest
PastTail(lg) ==
    {lg.segments[Len(lg.segments)].index + 1, lg.segments[Len(lg.segments)].index + 2, Huge}

\* C33: a Read of a segment number above the tail's gives, for every index,
\* what the Read of the tail at that index gives, and leaves the log as that
\* Read leaves it: on an open log the tail's record at that index or ErrEOF
\* for the indexes below 2^63, and never ErrSegNotFound; a Read of segment 0
\* on an open log gives ErrSegNotFound.
C33_ReadPastTailReadsTail ==
    Live =>
        \A index \in (0..MaxCalls) \cup {Huge} :
            /\ \A segment \in PastTail(l) :
                  ReadCall(l, files, segment, index, NoFault)
                      = ReadCall(l, files, l.segments[Len(l.segments)].index, index, NoFault)
            /\ Usable =>
                  /\ ReadCall(l, files, 0, index, NoFault).err = "ErrSegNotFound"
                  /\ \A segment \in PastTail(l) :
                        /\ ReadCall(l, files, segment, index, NoFault).err # "ErrSegNotFound"
                        /\ index < Huge =>
                              ReadCall(l, files, segment, index, NoFault).err
                                  \in {"nil", "ErrEOF"}

\* a Read of the segment after the tail of a log of two segments has
\* returned a record
C33_Witness ==
    /\ Usable
    /\ Len(l.segments) = 2
    /\ last.op = "Read" /\ last.err = "nil"
    /\ last.n > l.segments[Len(l.segments)].index
    /\ Len(last.out) > 0

\* the bytes and the spans of the segment at position i: its cache when it
\* is loaded, the parse of its file otherwise
SegmentBytes(lg, fs, i) ==
    IF Loaded(lg, i) THEN lg.segments[i].cbuf ELSE fs[lg.segments[i].index].content

SegmentSpans(lg, fs, i) ==
    IF Loaded(lg, i) THEN lg.segments[i].cpos ELSE FileSpans(fs, lg.segments[i].index).cpos

\* C34: in a log written through Write and WriteBatch alone every segment
\* but the tail holds at least one record, is SegmentSize bytes or more, and
\* is below SegmentSize without its last record.
C34_SegmentsFilledOnce ==
    Live =>
        \A i \in 1..(Len(l.segments) - 1) :
            /\ Len(SegmentSpans(l, files, i)) >= 1
            /\ Len(SegmentBytes(l, files, i)) >= l.opts.SegmentSize
            /\ SegmentSpans(l, files, i)[Len(SegmentSpans(l, files, i))].pos
                  < l.opts.SegmentSize

\* C35: of two Reads of the same segment that Open has not loaded, run by
\* two goroutines in any interleaving, each one that has left the body of
\* Read has the payload of the record at its index in the file, or ErrEOF when
\* the file has no such record, and once both have returned the cache of the
\* segment is the file and its parse.
C35_ConcurrentReadsCorrect ==
    /\ \A t \in RaceReaders :
          pc[t].at \in {"unlock", "done", "panic"} =>
              IF pc[t].index < Len(FileRecords(files, 1))
              THEN pc[t].err = "nil" /\ pc[t].out = FileRecords(files, 1)[pc[t].index + 1]
              ELSE pc[t].err = "ErrEOF"
    /\ (\A t \in RaceReaders : pc[t].at = "done") =>
          /\ l.segments[1].cbuf = files[1].content
          /\ l.segments[1].cpos = FileSpans(files, 1).cpos

\* the place among all the records of the log of record index of the
\* segment at position segment
RECURSIVE RecordsBefore(_, _)
RecordsBefore(lg, segment) ==
    IF segment <= 1 THEN 0
    ELSE Len(lg.segments[segment - 1].cpos) + RecordsBefore(lg, segment - 1)

PlaceOf(lg, segment, index) ==
    RecordsBefore(lg, Min(segment, Len(lg.segments))) + index + 1

\* C36: a Read that has returned and still holds the read lock has ErrEOF,
\* or the whole payload of a record of a batch whose WriteBatch has written
\* the file, synced it and cleared the batch (the records of such batches are
\* acked, in the order written), and meanwhile no WriteBatch is between
\* its first append and its return.
C36_BatchesReadWhole ==
    \A t \in BatchReaders :
        (pc[t].at = "unlock") =>
            /\ pc[t].err \in {"nil", "ErrEOF"}
            /\ pc[BatchWriter].at \notin {"enter", "entry", "staged", "flush", "commit", "clear"}
            /\ pc[t].err = "nil" =>
                  /\ PlaceOf(l, pc[t].segment, pc[t].index) <= Len(acked)
                  /\ pc[t].out = acked[PlaceOf(l, pc[t].segment, pc[t].index)]

\* a Read has returned the second record of a finished batch of two while
\* the writer of the next batch waits for the lock
C36_Witness ==
    \E t \in BatchReaders :
        /\ pc[t].at = "unlock" /\ pc[t].err = "nil"
        /\ pc[t].out = <<2, 3>>
        /\ pc[BatchWriter].at = "wait"
        /\ Len(acked) >= 2

\* the records in the caches of the log
CachedRecords(lg) == RecordsBefore(lg, Len(lg.segments) + 1)

\* the step is a call of Write: Batch.Write leaves the log alone
WriteStep ==
    /\ last'.op = "Write"
    /\ hist'.calls = hist.calls + 1
    /\ batch' = batch

\* C37: a WriteBatch that returns nil on a batch with payload bytes leaves
\* the batch empty, and has appended every entry the batch held, those kept
\* from earlier calls included; a WriteBatch that returns an error, or
\* returns nil on a batch with no payload bytes, leaves the batch as it was.
\* The same holds of Write and the batch of the log: empty after nil, its
\* entry kept after an error of writeBatch.
C37_BatchClearedOnSuccessOnly ==
    [][/\ (WriteBatchStep /\ last'.err = "nil" /\ Len(batch.data) > 0) =>
             /\ batch' = EmptyBatch
             /\ CachedRecords(l') = CachedRecords(l) + Len(batch.entries)
       /\ (WriteBatchStep /\ last'.err # "nil") => batch' = batch
       /\ (WriteBatchStep /\ last'.err = "nil" /\ Len(batch.data) = 0) =>
             batch' = batch /\ l' = l /\ files' = files
       /\ (WriteStep /\ last'.err = "nil") => l'.wbatch = EmptyBatch
       /\ (WriteStep /\ last'.err # "nil" /\ Refused(l) = "nil") =>
             Len(l'.wbatch.entries) = 1]_vars

\* a WriteBatch failed, the batch kept its entry, and the next WriteBatch of
\* the batch returned nil: the caches hold the entry twice
C37_Witness ==
    /\ Usable
    /\ last.op = "WriteBatch" /\ last.err = "nil"
    /\ "WriteBatch" \in hist.fops
    /\ batch = EmptyBatch
    /\ Len(acked) = 1
    /\ CachedRecords(l) = 2

====
